---- MODULE Spec2Model ----
(***************************************************************************)
(* The SVG cache of RmlUi (Source/SVG/SVGCache.cpp): two static tables,    *)
(* `documents` (source path -> SVGDoc) and `handles` (hash -> Handle),     *)
(* and the operations GetHandle / ReleaseHandle / GetGeometry on them,     *)
(* together with the deferred rasterization callback that GetHandle hands  *)
(* to each render-size texture.                                            *)
(*                                                                         *)
(* The repository holds the cache's translation unit in two revisions:     *)
(*   "SVGCache.cpp"  src/Source/SVG/SVGCache.cpp  GetHandle(source,        *)
(*                   dimensions, colour); the callback captures the        *)
(*                   caller's dimensions by reference.                     *)
(*   "part_001"      src/unnamed/part_001 l.214-523  GetHandle(source,     *)
(*                   dimensions, content_fit, colour); the callback        *)
(*                   captures dimensions and content_fit by value.         *)
(* A process links exactly one of them; `build` says which and never       *)
(* changes.                                                                *)
(***************************************************************************)
EXTENDS Bags, FiniteSets, Integers, Sequences, TLC

VARIABLES
    build,      \* which revision of the cache is linked
    documents,  \* static DocumentMap documents: source -> SVGDoc
    handles,    \* static HandleMap handles: SVGHandle -> Handle
    held,       \* the callers' leases: a bag of [request, handle], one per GetHandle not yet released
    last,       \* the most recent call: its name and what it handed back
    asserted,   \* "none", or the RMLUI_ASSERT that failed (the process has aborted)
    elements,   \* the ElementSVG objects: name -> members, attributes, box and style
    decorator,  \* the gradient decorator an instancer handed out (nullptr: none)
    effects     \* the render interface's shader calls and the pool of element-data records

vars == <<build, documents, handles, held, last, asserted, elements, decorator, effects>>

(***************************************************************************)
(* Bounds and input domains                                                *)
(***************************************************************************)
\* Most leases (successful GetHandle calls not yet released) outstanding at once.
MaxLeases == 2

Builds == {"SVGCache.cpp", "part_001"}

\* Source paths callers pass; "" is the empty path.
Sources == {"", "a.svg", "b.svg"}

White == [red |-> 255, green |-> 255, blue |-> 255, alpha |-> 255]

\* Vector2i pixel dimensions callers pass.
Dims == {<<1, 1>>, <<2, 1>>}

Colourb(r, g, b, a) == [red |-> r, green |-> g, blue |-> b, alpha |-> a]

\* Tint colours callers pass: opaque white, white with blue cleared and half
\* alpha, and opaque white with red cleared.
Colours ==
    {White, Colourb(255, 255, 0, 128), Colourb(0, 255, 255, 255)}

\* What the file interface and the SVG parser do with a non-empty path at the
\* moment of a call: LoadFile succeeds and the data parses, LoadFile fails, or
\* loadFromData returns null.
FileStates == {"ok", "unreadable", "malformed"}

\* width()/height() of the parsed lunasvg document of each source.
SvgSize(source) == IF source = "a.svg" THEN <<4, 2>> ELSE <<0, 0>>

\* box() of the parsed document (the content's bounding box), as <<w, h>>.
SvgBox(source) == IF source = "a.svg" THEN <<2, 2>> ELSE <<1, 1>>

Max(a, b) == IF a >= b THEN a ELSE b

\* The invalid handle, 0u: also the seed every hash starts from.
InvalidHandle == <<>>

\* No shader compiled or released yet, and no element-data record in the pool.
NoEffects == [compiled |-> <<>>, released |-> <<>>, pool |-> <<>>]

nullptr == <<>>

(***************************************************************************)
(* Helpers of the cache                                                    *)
(***************************************************************************)
\* Utilities::HashCombine(seed, value): the design trusts the combined hash as
\* the identity of the values fed to it, so it is modelled as collision-free.
HashCombine(seed, value) == Append(seed, value)

\* *reinterpret_cast<uint16_t const*>(&colour): the first two bytes of the
\* four-byte Colourb {red, green, blue, alpha}.
ColourBits(colour) == colour.red + 256 * colour.green

\* "generate handle" at the top of GetHandle.
HashHandle(b, source, dimensions, content_fit, colour) ==
    LET h1 == HashCombine(InvalidHandle, source)
        h2 == HashCombine(h1, dimensions[1])
        h3 == HashCombine(h2, dimensions[2])
        h4 == IF b = "part_001" THEN HashCombine(h3, content_fit) ELSE h3
    IN  HashCombine(h4, ColourBits(colour))

\* A faulty comparison that looks at the height alone.
SizeMatchesHeightOnly(el, dimensions) == el.render_dimensions[2] = dimensions[2]

\* The comparison of the find_if in FindSize.
SizeMatches(el, dimensions) == el.render_dimensions = dimensions

\* FindSize: index of the first render size with these dimensions, 0 for end().
FindSize(doc, dimensions) ==
    LET hits == {i \in 1..Len(doc.render_sizes) : SizeMatches(doc.render_sizes[i], dimensions)}
    IN  IF hits = {} THEN 0 ELSE CHOOSE i \in hits : \A j \in hits : i <= j

\* find_if over tex_size.colours by colour (GetHandle); 0 for end().
FindColour(tex_size, colour) ==
    LET hits == {i \in 1..Len(tex_size.colours) : tex_size.colours[i].colour = colour}
    IN  IF hits = {} THEN 0 ELSE CHOOSE i \in hits : \A j \in hits : i <= j

\* A faulty search that settles for the first colour entry.
FindGeometryFirst(tex_size, geometry) == IF Len(tex_size.colours) = 0 THEN 0 ELSE 1

\* find_if over tex_size.colours by geometry pointer (ReleaseHandle); 0 for end().
FindGeometry(tex_size, geometry) ==
    LET hits == {i \in 1..Len(tex_size.colours) : tex_size.colours[i].geometry.ptr = geometry}
    IN  IF hits = {} THEN 0 ELSE CHOOSE i \in hits : \A j \in hits : i <= j

\* A faulty removal that pops the back without the swap.
PopBackOnly(v, i) == SubSeq(v, 1, Len(v) - 1)

\* std::iter_swap(it, std::prev(v.end())); v.pop_back();
SwapPop(v, i) == [j \in 1..(Len(v) - 1) |-> IF j = i THEN v[Len(v)] ELSE v[j]]

\* A faulty increment that leaves the count as it is.
IncRefStuck(n) == n

\* ref_count++ on a size_t.
IncRef(n) == n + 1

\* A faulty decrement that leaves the count alone.
DecRefStuck(n) == n

\* --ref_count on a size_t.  A count of 0 would wrap to SIZE_MAX; like -1 here
\* that is a value different from 0, which is all the code tests.
DecRef(n) == n - 1

\* Every render-size entry and every colour entry the documents own, by position.
SizeSlots(docs) ==
    UNION {{<<s, i>> : i \in 1..Len(docs[s].render_sizes)} : s \in DOMAIN docs}

ColourSlots(docs) ==
    UNION {{<<sl[1], sl[2], k>> : k \in 1..Len(docs[sl[1]].render_sizes[sl[2]].colours)} :
           sl \in SizeSlots(docs)}

\* The addresses of the Texture and Geometry objects the documents own.
TexturePtrs(docs) == {docs[sl[1]].render_sizes[sl[2]].texture.ptr : sl \in SizeSlots(docs)}

GeometryPtrs(docs) ==
    {docs[cl[1]].render_sizes[cl[2]].colours[cl[3]].geometry.ptr : cl \in ColourSlots(docs)}

\* MakeUnique<T>(): a new object at an address no live object of the documents
\* has.  Which free address the allocator picks is its own business; the model
\* names the address after what the object is made for (`tag`) and adds the
\* lowest serial that keeps it distinct from every live address, so a freed
\* address is handed out again when the same thing is rebuilt.
MakeUnique(used, tag) ==
    LET serial == CHOOSE n \in 0..Cardinality(used) :
                      <<tag, n>> \notin used /\ \A m \in 0..(n - 1) : <<tag, m>> \in used
    IN  <<tag, serial>>

\* The SVGDoc GetHandle builds when the source loads and parses: the parsed
\* document (named by its source) and its intrinsic dimensions, floored at 1.
LoadDocument(source) ==
    [intrinsic_dimensions |-> <<Max(SvgSize(source)[1], 1), Max(SvgSize(source)[2], 1)>>,
     svg_document |-> source,
     render_sizes |-> <<>>]

\* What p_callback captures.  In SVGCache.cpp `dimensions` is captured by
\* reference: the capture is the caller's Vector2i object itself, modelled by
\* that object's present state.  In part_001 dimensions and content_fit are
\* copied into the closure.
CaptureCallback(b, svg_document, dimensions, content_fit) ==
    IF b = "part_001"
    THEN [svg_document |-> svg_document, dimensions |-> dimensions, content_fit |-> content_fit]
    ELSE [svg_document |-> svg_document, dimensions_ref |-> [alive |-> TRUE, value |-> dimensions]]

\* "find or create texture": the new SVGDoc::Size.  (SVGCache.cpp's Size has
\* no content_fit member.)
NewSize(b, docs, doc, dimensions, content_fit) ==
    LET texture == [ptr |-> MakeUnique(TexturePtrs(docs), <<doc.svg_document, dimensions>>),
                    callback |-> CaptureCallback(b, doc.svg_document, dimensions, content_fit)]
    IN  IF b = "part_001"
        THEN [render_dimensions |-> dimensions, content_fit |-> content_fit,
              texture |-> texture, colours |-> <<>>]
        ELSE [render_dimensions |-> dimensions, texture |-> texture, colours |-> <<>>]

\* "find or create geometry": the new SVGDoc::Size::Colour with its quad of
\* the entry's render dimensions in the requested colour, bound to the
\* entry's texture.
NewColour(docs, source, tex_size, colour) ==
    [ref_count |-> 1,
     colour |-> colour,
     geometry |-> [ptr |-> MakeUnique(GeometryPtrs(docs), <<source, tex_size.render_dimensions, colour>>),
                   quad |-> [size |-> tex_size.render_dimensions, colour |-> colour],
                   texture |-> tex_size.texture.ptr]]

\* "create the handle".
\* A faulty handle that copies the document's dimensions in either fit mode.
NewHandleOfDocument(b, doc, geometry, source, dimensions, content_fit) ==
    IF b = "part_001"
    THEN [ref_count |-> 1, geometry |-> geometry, dimensions |-> dimensions,
          intrinsic_dimensions |-> doc.intrinsic_dimensions, source |-> source]
    ELSE [ref_count |-> 1, geometry |-> geometry, dimensions |-> dimensions, source |-> source]

NewHandle(b, doc, geometry, source, dimensions, content_fit) ==
    IF b = "part_001"
    THEN [ref_count |-> 1, geometry |-> geometry, dimensions |-> dimensions,
          intrinsic_dimensions |-> IF content_fit THEN SvgBox(doc.svg_document)
                                   ELSE doc.intrinsic_dimensions,
          source |-> source]
    ELSE [ref_count |-> 1, geometry |-> geometry, dimensions |-> dimensions, source |-> source]

\* map[key] = value and map.erase(key) on an UnorderedMap.
MapPut(map, key, value) == [k \in DOMAIN map \cup {key} |-> IF k = key THEN value ELSE map[k]]

\* A faulty erase that leaves the entry in the map.
MapEraseNothing(map, key) == map

MapErase(map, key) == [k \in DOMAIN map \ {key} |-> map[k]]

(***************************************************************************)
(* SVGCache::GetHandle                                                     *)
(***************************************************************************)
\* A faulty test that forgets the empty path.
LoadFailsForgetsEmpty(source, file) == file = "unreadable"

\* source.empty() || !GetFileInterface()->LoadFile(source, svg_data)
LoadFails(source, file) == source = "" \/ file = "unreadable"

\* !doc.svg_document after loadFromData
ParseFails(file) == file = "malformed"

\* A faulty lookup that never finds the document.
CachedNever(docs, source) == FALSE

\* found_doc != documents.cend()
Cached(docs, source) == source \in DOMAIN docs

\* The call on the tables docs/hs: the value returned, the tables after it,
\* and whether it called the file interface's LoadFile.  `file` is what the
\* file interface and the parser do with `source` should the call get to
\* load it.
GetHandle(b, docs, hs, source, dimensions, content_fit, colour, file) ==
    LET handle == HashHandle(b, source, dimensions, content_fit, colour)
        cached == Cached(docs, source)
        doc0 == IF cached THEN docs[source] ELSE LoadDocument(source)
        found0 == FindSize(doc0, dimensions)
        doc1 == IF found0 = 0
                THEN [doc0 EXCEPT !.render_sizes =
                          Append(@, NewSize(b, docs, doc0, dimensions, content_fit))]
                ELSE doc0
        found_texture == IF found0 = 0 THEN Len(doc1.render_sizes) ELSE found0
        tex_size == doc1.render_sizes[found_texture]
        colour0 == FindColour(tex_size, colour)
        colours == IF colour0 # 0
                   THEN [tex_size.colours EXCEPT ![colour0].ref_count = IncRef(@)]
                   ELSE Append(tex_size.colours, NewColour(docs, source, tex_size, colour))
        found_colour == IF colour0 # 0 THEN colour0 ELSE Len(colours)
        doc2 == [doc1 EXCEPT !.render_sizes[found_texture].colours = colours]
        svg_handle == NewHandle(b, doc2, colours[found_colour].geometry.ptr,
                                source, dimensions, content_fit)
    IN  IF handle \in DOMAIN hs
        THEN [ret |-> handle, documents |-> docs,
              handles |-> [hs EXCEPT ![handle].ref_count = IncRef(@)],
              loaded |-> FALSE]
        ELSE IF ~cached /\ LoadFails(source, file)
        THEN \* "Could not load SVG file": return 0u; source.empty() comes
             \* first and keeps LoadFile from being called
             [ret |-> InvalidHandle, documents |-> docs, handles |-> hs,
              loaded |-> source # ""]
        ELSE IF ~cached /\ ParseFails(file)
        THEN \* "Could not load SVG data from file": return 0u
             [ret |-> InvalidHandle, documents |-> docs, handles |-> hs,
              loaded |-> TRUE]
        ELSE [ret |-> handle, documents |-> MapPut(docs, source, doc2),
              handles |-> MapPut(hs, handle, svg_handle),
              loaded |-> ~cached]

(***************************************************************************)
(* SVGCache::ReleaseHandle                                                 *)
(***************************************************************************)
\* A faulty cascade that drops the render size without looking at its other
\* colour entries.
DeleteWholeSize(docs, source, found_texture, found_geo) ==
    IF Len(docs[source].render_sizes) > 1
    THEN [docs EXCEPT ![source].render_sizes = SwapPop(@, found_texture)]
    ELSE MapErase(docs, source)

\* A faulty cascade that erases the colour entry and stops there.
DeleteColourOnly(docs, source, found_texture, found_geo) ==
    [docs EXCEPT ![source].render_sizes[found_texture].colours = SwapPop(@, found_geo)]

\* "delete from doc map": the documents table after the colour entry at
\* found_geo of the render size at found_texture of `source` lost its last
\* reference.
DeleteFromDocMap(docs, source, found_texture, found_geo) ==
    LET doc == docs[source]
        tex_size == doc.render_sizes[found_texture]
    IN  IF Len(tex_size.colours) > 1
        THEN [docs EXCEPT ![source].render_sizes[found_texture].colours = SwapPop(@, found_geo)]
        ELSE IF Len(doc.render_sizes) > 1
        THEN [docs EXCEPT ![source].render_sizes = SwapPop(@, found_texture)]
        ELSE MapErase(docs, source)

\* A faulty lookup failure that returns as if nothing had happened.
UnknownHandleIgnored(docs, hs) ==
    [documents |-> docs, handles |-> hs, asserted |-> "none"]

\* handles.find(handle) found nothing: RMLUI_ASSERT(found_it != handles.cend())
\* stops the call with the tables as they are.
UnknownHandle(docs, hs) ==
    [documents |-> docs, handles |-> hs, asserted |-> "found_it != handles.cend()"]

\* The call on the tables docs/hs: the tables after it and the RMLUI_ASSERT
\* that stopped it ("none" when it ran to its end).
ReleaseHandle(docs, hs, handle) ==
    IF handle \notin DOMAIN hs
    THEN UnknownHandle(docs, hs)
    ELSE LET svg_handle == hs[handle]
             decremented == [hs EXCEPT ![handle].ref_count = DecRef(@)]
             doc == docs[svg_handle.source]
             found_texture == FindSize(doc, svg_handle.dimensions)
             tex_size == doc.render_sizes[found_texture]
             found_geo == FindGeometry(tex_size, svg_handle.geometry)
         IN  IF DecRef(svg_handle.ref_count) # 0
             THEN [documents |-> docs, handles |-> decremented, asserted |-> "none"]
             ELSE IF svg_handle.source \notin DOMAIN docs
             THEN [documents |-> docs, handles |-> decremented,
                   asserted |-> "found_doc != documents.cend()"]
             ELSE IF found_texture = 0
             THEN [documents |-> docs, handles |-> decremented,
                   asserted |-> "found_texture != doc.render_sizes.cend()"]
             ELSE IF found_geo = 0
             THEN [documents |-> docs, handles |-> decremented,
                   asserted |-> "found_geo != tex_size.colours.cend()"]
             ELSE [documents |->
                       IF DecRef(tex_size.colours[found_geo].ref_count) = 0
                       THEN DeleteFromDocMap(docs, svg_handle.source, found_texture, found_geo)
                       ELSE [docs EXCEPT ![svg_handle.source]
                                 .render_sizes[found_texture].colours[found_geo].ref_count =
                                     DecRef(@)],
                   handles |-> MapErase(hs, handle),
                   asserted |-> "none"]

(***************************************************************************)
(* SVGCache::Deninitialize                                                 *)
(***************************************************************************)
\* A faulty teardown that clears the handles and keeps the documents.
DeninitializeHandlesOnly(docs, hs) == [documents |-> docs, handles |-> <<>>]

\* documents.clear(); handles.clear();
Deninitialize(docs, hs) == [documents |-> <<>>, handles |-> <<>>]

(***************************************************************************)
(* SVGCache::GetGeometry                                                   *)
(***************************************************************************)
\* The Geometry* returned, the value written to the intrinsic_dimensions
\* out-parameter ("untouched" when it is not written) and the assertion that
\* fails, if any.
GetGeometry(b, docs, hs, handle) ==
    IF handle \notin DOMAIN hs
    THEN [geometry |-> nullptr, intrinsic_dimensions |-> "untouched", asserted |-> "none"]
    ELSE IF b = "part_001"
    THEN [geometry |-> hs[handle].geometry,
          intrinsic_dimensions |-> hs[handle].intrinsic_dimensions,
          asserted |-> "none"]
    ELSE IF hs[handle].source \notin DOMAIN docs
    THEN [geometry |-> nullptr, intrinsic_dimensions |-> "untouched",
          asserted |-> "found_doc != documents.cend()"]
    ELSE [geometry |-> hs[handle].geometry,
          intrinsic_dimensions |-> docs[hs[handle].source].intrinsic_dimensions,
          asserted |-> "none"]

\* Every colour entry of the documents with the chain it hangs on, and every
\* render-size entry (less its colour list) with its document.
ColourEntries(docs) ==
    {[source |-> cl[1],
      render_dimensions |-> docs[cl[1]].render_sizes[cl[2]].render_dimensions,
      texture |-> docs[cl[1]].render_sizes[cl[2]].texture.ptr,
      entry |-> docs[cl[1]].render_sizes[cl[2]].colours[cl[3]]] : cl \in ColourSlots(docs)}

SizeEntries(docs) ==
    {[source |-> sl[1],
      size |-> [docs[sl[1]].render_sizes[sl[2]] EXCEPT !.colours = <<>>]] : sl \in SizeSlots(docs)}

\* The live Geometry objects at an address: one when the pointer is good,
\* none when it dangles.
Deref(docs, geometry) ==
    {docs[cl[1]].render_sizes[cl[2]].colours[cl[3]].geometry : cl \in
        {c \in ColourSlots(docs) :
            docs[c[1]].render_sizes[c[2]].colours[c[3]].geometry.ptr = geometry}}

(***************************************************************************)
(* The deferred rasterization callback                                     *)
(***************************************************************************)
\* The `dimensions` p_callback reads when the texture invokes it: the closure's
\* copy (part_001); the present value of the referenced caller object, or,
\* once that object is gone, whatever the dangling reference yields
\* (SVGCache.cpp).
CallbackDimensions(callback, garbage) ==
    IF "dimensions" \in DOMAIN callback THEN callback.dimensions
    ELSE IF callback.dimensions_ref.alive THEN callback.dimensions_ref.value
    ELSE garbage

\* p_callback: the size the document is rendered at, the size of the buffer
\* handed back, the dimensions reported in `dim`, and the fit mode used.
p_callback(callback, garbage) ==
    LET dimensions == CallbackDimensions(callback, garbage)
    IN  [rendered |-> dimensions,
         total_bytes |-> 4 * dimensions[1] * dimensions[2],
         dim |-> dimensions,
         content_fit |-> IF "content_fit" \in DOMAIN callback THEN callback.content_fit
                         ELSE FALSE]

(***************************************************************************)
(* The callers                                                             *)
(***************************************************************************)
Request(source, dimensions, content_fit, colour) ==
    [source |-> source, dimensions |-> dimensions, content_fit |-> content_fit, colour |-> colour]

\* SVGCache.cpp's GetHandle has no content_fit parameter.
FitModes(b) == IF b = "part_001" THEN BOOLEAN ELSE {FALSE}

\* What the callers ask for: a.svg at every size, fit mode and colour; b.svg
\* and the empty path at every fit mode, at 1x1 in white.
Requests(b) ==
    {Request("a.svg", d, f, c) : d \in Dims, f \in FitModes(b), c \in Colours}
    \cup {Request(s, <<1, 1>>, f, White) : s \in {"b.svg", ""}, f \in FitModes(b)}

\* The file states a call can meet: none matters for the empty path.
FileStatesFor(source) == IF source = "" THEN {"ok"} ELSE FileStates

Leases == BagToSet(held)

\* A caller asks for a handle and keeps what it gets, unless it is 0.
CallGetHandle ==
    \E r \in Requests(build) : \E file \in FileStatesFor(r.source) :
        LET got == GetHandle(build, documents, handles,
                             r.source, r.dimensions, r.content_fit, r.colour, file)
        IN  /\ asserted = "none"
            /\ got.ret = InvalidHandle \/ BagCardinality(held) < MaxLeases
            /\ documents' = got.documents
            /\ handles' = got.handles
            /\ held' = IF got.ret = InvalidHandle THEN held
                       ELSE held (+) SetToBag({[request |-> r, handle |-> got.ret]})
            /\ last' = [op |-> "GetHandle", failed |-> got.ret = InvalidHandle]
            /\ UNCHANGED <<effects, decorator, build, asserted, elements>>

\* A caller gives back one of the handles it holds.
CallReleaseHandle ==
    \E lease \in Leases :
        LET done == ReleaseHandle(documents, handles, lease.handle)
        IN  /\ asserted = "none"
            /\ documents' = done.documents
            /\ handles' = done.handles
            /\ asserted' = done.asserted
            /\ held' = held (-) SetToBag({lease})
            /\ last' = [op |-> "ReleaseHandle",
                        known |-> lease.handle \in DOMAIN handles,
                        erased |-> lease.handle \notin DOMAIN done.handles]
            /\ UNCHANGED <<effects, decorator, build, elements>>

\* The texture of a render size uploads: it invokes its callback and keeps
\* what it got.
Rasterize ==
    \E sl \in SizeSlots(documents), garbage \in Dims \cup {<<0, 0>>} :
        LET tex_size == documents[sl[1]].render_sizes[sl[2]]
        IN  /\ asserted = "none"
            /\ last' = [op |-> "p_callback",
                        render_dimensions |-> tex_size.render_dimensions,
                        got |-> p_callback(tex_size.texture.callback, garbage)]
            /\ UNCHANGED <<effects, decorator, build, documents, handles, held, asserted, elements>>

\* The caller assigns to the Vector2i it passed to GetHandle (ElementSVG
\* recomputes its render_dimensions member on every refresh).  Only a
\* by-reference capture sees it.
CallerSetsDimensions ==
    \E sl \in SizeSlots(documents), d \in Dims :
        /\ asserted = "none"
        /\ "dimensions_ref" \in DOMAIN documents[sl[1]].render_sizes[sl[2]].texture.callback
        /\ documents[sl[1]].render_sizes[sl[2]].texture.callback.dimensions_ref.alive
        /\ documents' = [documents EXCEPT
                ![sl[1]].render_sizes[sl[2]].texture.callback.dimensions_ref.value = d]
        /\ UNCHANGED <<effects, decorator, build, handles, held, last, asserted, elements>>

\* The caller's Vector2i goes out of scope, or is destroyed with its element.
CallerDestroysDimensions ==
    \E sl \in SizeSlots(documents) :
        /\ asserted = "none"
        /\ "dimensions_ref" \in DOMAIN documents[sl[1]].render_sizes[sl[2]].texture.callback
        /\ documents[sl[1]].render_sizes[sl[2]].texture.callback.dimensions_ref.alive
        /\ documents' = [documents EXCEPT
                ![sl[1]].render_sizes[sl[2]].texture.callback.dimensions_ref =
                    [alive |-> FALSE, value |-> <<0, 0>>]]
        /\ UNCHANGED <<effects, decorator, build, handles, held, last, asserted, elements>>

\* The handle values a caller can come up with: 0 and the value of every
\* request, whether it was ever issued or not.
ProbeHandles(b) ==
    {InvalidHandle} \cup
    {HashHandle(b, r.source, r.dimensions, r.content_fit, r.colour) : r \in Requests(b)}

\* A caller releases a handle value that is not in the handles table.
CallReleaseUnknown ==
    \E handle \in ProbeHandles(build) \ DOMAIN handles :
        LET done == ReleaseHandle(documents, handles, handle)
        IN  /\ asserted = "none"
            /\ documents' = done.documents
            /\ handles' = done.handles
            /\ asserted' = done.asserted
            /\ last' = [op |-> "ReleaseHandle", known |-> FALSE, erased |-> FALSE]
            /\ UNCHANGED <<effects, decorator, build, held, elements>>

\* A caller asks for the geometry of a handle value, live or not.
CallGetGeometry ==
    \E handle \in ProbeHandles(build) :
        LET got == GetGeometry(build, documents, handles, handle)
        IN  /\ asserted = "none"
            /\ asserted' = got.asserted
            /\ last' = [op |-> "GetGeometry",
                        live |-> handle \in DOMAIN handles,
                        null |-> got.geometry = nullptr,
                        intrinsic_dimensions |-> got.intrinsic_dimensions]
            /\ UNCHANGED <<effects, decorator, build, documents, handles, held, elements>>

\* The library shuts down; the callers keep the handle values they hold.
CallDeninitialize ==
    LET done == Deninitialize(documents, handles)
    IN  /\ asserted = "none"
        /\ documents' = done.documents
        /\ handles' = done.handles
        /\ last' = [op |-> "Deninitialize"]
        /\ UNCHANGED <<effects, decorator, build, held, asserted, elements>>

(***************************************************************************)
(* Specifications                                                          *)
(***************************************************************************)
\* The state after static initialisation: both tables empty.
Init ==
    /\ build \in Builds
    /\ documents = <<>>
    /\ handles = <<>>
    /\ held = EmptyBag
    /\ last = [op |-> "none"]
    /\ asserted = "none"
    /\ elements = <<>>
    /\ decorator = nullptr
    /\ effects = NoEffects

\* Callers that get and release handles.
Next ==
    \/ CallGetHandle
    \/ CallReleaseHandle

Spec == Init /\ [][Next]_vars

\* The same callers, with the textures uploading at any time and the callers
\* going on to use the Vector2i objects they passed in.
NextCallback ==
    \/ CallGetHandle
    \/ CallReleaseHandle
    \/ Rasterize
    \/ CallerSetsDimensions
    \/ CallerDestroysDimensions

SpecCallback == Init /\ [][NextCallback]_vars

\* The requests of the callers below: one size of a.svg in two colours, and
\* b.svg.
TeardownRequests ==
    {r \in Requests(build) :
        /\ r.dimensions = <<1, 1>>
        /\ r.colour \in {White, Colourb(0, 255, 255, 255)}
        /\ ~r.content_fit \/ r.colour = White}

\* Callers that also pass handle values they do not hold, and a teardown at
\* any time.
NextTeardown ==
    \/ CallGetHandle /\ \A lease \in BagToSet(held') : lease.request \in TeardownRequests
    \/ CallReleaseHandle
    \/ CallReleaseUnknown
    \/ CallGetGeometry
    \/ CallDeninitialize

SpecTeardown == Init /\ [][NextTeardown]_vars

(***************************************************************************)
(* ElementSVG (src/unnamed/part_001 l.29-185): the <svg> element, a caller *)
(* of the cache that holds at most one handle.  It calls the               *)
(* three-parameter GetHandle, the one of the "SVGCache.cpp" revision.      *)
(***************************************************************************)
Elements == {"e1"}

\* GetOwnerDocument()->GetSourceURL() of each element ("none": no owner
\* document): e1 lives in a document loaded from the working directory.
OwnerDocument(e) == IF e = "e1" THEN "doc.rml" ELSE "none"

\* The values the "src" attribute takes ("" also stands for no attribute),
\* the values of "width" (-1: no attribute), the properties a style change
\* can touch, and opacity in percent.
SrcValues == {"", "a.svg", "b.svg"}

NoAttribute == -1

WidthValues == {NoAttribute, 3}

PropertyIds == {"ImageColor", "Opacity", "Other"}

ImageColours == {White, Colourb(0, 255, 255, 255)}

Opaque == 100

Opacities == {Opaque}

\* SystemInterface::JoinPath: `path` relative to the directory of
\* document_path; the documents here sit in the working directory.
DirectoryOf(document_path) == IF document_path = "doc.rml" THEN "" ELSE "?/"

JoinPath(document_path, path) == DirectoryOf(document_path) \o path

\* What a refresh reads from layout and style when it runs: the size of the
\* content box and the computed image-color and opacity.
Layouts == [box : Dims, image_color : ImageColours, opacity : Opacities]

\* The element after construction: geometry(nullptr), no handle, no source
\* path and no src attribute.  The dirty flags start as the class
\* declaration initialises them.
ElementSVG(is_dirty, source_dirty) ==
    [alive |-> TRUE, src |-> "",
     source_path |-> "", is_dirty |-> is_dirty, source_dirty |-> source_dirty,
     handle |-> InvalidHandle, geometry |-> nullptr,
     intrinsic_dimensions |-> <<0, 0>>, render_dimensions |-> <<0, 0>>]

\* What a handler did to the cache: one entry per call, with the sources of
\* the documents and the reference counts of the handles right after it.
CacheCall(call, handle, docs, hs) ==
    [call |-> call, handle |-> handle, documents |-> DOMAIN docs,
     ref_counts |-> [h \in DOMAIN hs |-> hs[h].ref_count]]

FirstAssert(a, b) == IF a # "none" THEN a ELSE b

\* colour = computed.image_color(); colour.alpha = (byte)(opacity * alpha)
ComputedColour(computed) ==
    [computed.image_color EXCEPT !.alpha = (computed.opacity * @) \div Opaque]

\* One ReleaseHandle call as the element sees it: the tables after it and
\* the call recorded.
ReleaseCalled(handle, done) ==
    [documents |-> done.documents, handles |-> done.handles, asserted |-> done.asserted,
     calls |-> <<CacheCall("ReleaseHandle", handle, done.documents, done.handles)>>]

\* A faulty release that forgets to test the handle against 0.
ReleaseUntested(el, docs, hs) ==
    ReleaseCalled(el.handle, ReleaseHandle(docs, hs, el.handle))

\* if (handle != 0u) ReleaseHandle(handle);
ReleaseHeld(el, docs, hs) ==
    IF el.handle # InvalidHandle
    THEN ReleaseCalled(el.handle, ReleaseHandle(docs, hs, el.handle))
    ELSE [documents |-> docs, handles |-> hs, asserted |-> "none", calls |-> <<>>]

\* The faulty tail once its two calls are made: the handle got is taken.
TakenAfterRelease(el, done, got, geo) ==
    [el |-> IF got.ret = InvalidHandle
            THEN [el EXCEPT !.geometry = nullptr, !.intrinsic_dimensions = <<0, 0>>]
            ELSE [el EXCEPT !.geometry = geo.geometry,
                            !.intrinsic_dimensions = geo.intrinsic_dimensions,
                            !.handle = got.ret, !.is_dirty = FALSE],
     documents |-> got.documents, handles |-> got.handles,
     calls |-> done.calls \o <<CacheCall("GetHandle", got.ret, got.documents, got.handles)>>,
     asserted |-> done.asserted]

AcquiredAfterRelease(b, el, done, got) ==
    TakenAfterRelease(el, done, got, GetGeometry(b, got.documents, got.handles, got.ret))

ReleasedFirst(b, el, computed, file, done) ==
    AcquiredAfterRelease(b, el, done,
                         GetHandle(b, done.documents, done.handles, el.source_path,
                                   el.render_dimensions, FALSE, ComputedColour(computed), file))

\* A faulty tail that forgets the handle it held when GetHandle returns 0.
SwappedForgets(el, got, geo, done) ==
    IF got.ret = InvalidHandle
    THEN [el |-> [el EXCEPT !.geometry = nullptr, !.intrinsic_dimensions = <<0, 0>>,
                            !.handle = InvalidHandle],
          documents |-> got.documents, handles |-> got.handles,
          calls |-> <<CacheCall("GetHandle", got.ret, got.documents, got.handles)>>,
          asserted |-> "none"]
    ELSE [el |-> [el EXCEPT !.geometry = geo.geometry,
                            !.intrinsic_dimensions = geo.intrinsic_dimensions,
                            !.handle = got.ret, !.is_dirty = FALSE],
          documents |-> done.documents, handles |-> done.handles,
          calls |-> <<CacheCall("GetHandle", got.ret, got.documents, got.handles)>>
                    \o done.calls,
          asserted |-> FirstAssert(geo.asserted, done.asserted)]

\* UpdateCachedData after its calls (l.165-181), given what GetHandle,
\* GetGeometry and the release of the old handle returned: on handle 0 the
\* geometry is dropped and the old handle kept (no other call was made);
\* otherwise the geometry and the new handle are taken.
Swapped(el, got, geo, done) ==
    IF got.ret = InvalidHandle
    THEN [el |-> [el EXCEPT !.geometry = nullptr, !.intrinsic_dimensions = <<0, 0>>],
          documents |-> got.documents, handles |-> got.handles,
          calls |-> <<CacheCall("GetHandle", got.ret, got.documents, got.handles)>>,
          asserted |-> "none"]
    ELSE [el |-> [el EXCEPT !.geometry = geo.geometry,
                            !.intrinsic_dimensions = geo.intrinsic_dimensions,
                            !.handle = got.ret, !.is_dirty = FALSE],
          documents |-> done.documents, handles |-> done.handles,
          calls |-> <<CacheCall("GetHandle", got.ret, got.documents, got.handles)>>
                    \o done.calls,
          asserted |-> FirstAssert(geo.asserted, done.asserted)]

\* geometry = GetGeometry(new_handle, ...); if (handle != 0u) ReleaseHandle(handle);
WithHandle(b, el, got) ==
    Swapped(el, got, GetGeometry(b, got.documents, got.handles, got.ret),
            ReleaseHeld(el, got.documents, got.handles))

\* A faulty refresh tail that gives the old handle back before it asks for
\* the new one.
ReleaseThenAcquire(b, el, computed, docs, hs, file) ==
    ReleasedFirst(b, el, computed, file, ReleaseHeld(el, docs, hs))

\* UpdateCachedData from the GetHandle call on (l.164-181): ask for the new
\* handle; on 0 drop the geometry and keep the old handle; otherwise fetch
\* the geometry, give the old handle back and take the new one.
AcquireThenRelease(b, el, computed, docs, hs, file) ==
    WithHandle(b, el, GetHandle(b, docs, hs, el.source_path, el.render_dimensions,
                                FALSE, ComputedColour(computed), file))

\* The "if (source_dirty)" block: the path the src attribute resolves to, or
\* the path as it was when the attribute is empty.
ResolveSource(e, el) ==
    IF el.source_dirty /\ el.src # ""
    THEN IF OwnerDocument(e) # "none" THEN JoinPath(OwnerDocument(e), el.src) ELSE el.src
    ELSE el.source_path

\* A faulty test that lets every call through.
GoesOnAlways(el) == TRUE

\* The test UpdateCachedData opens with: it goes on only with both flags set.
GoesOn(el) == ~(~el.is_dirty \/ ~el.source_dirty)

\* ElementSVG::UpdateCachedData on element e in state el: the element, the
\* tables, the cache calls made and whether it got past its first test.
UpdateCachedData(b, e, el, computed, docs, hs, file) ==
    IF ~GoesOn(el)
    THEN [el |-> el, documents |-> docs, handles |-> hs, calls |-> <<>>,
          asserted |-> "none", refreshed |-> FALSE]
    ELSE IF ResolveSource(e, el) = ""
    THEN [el |-> [el EXCEPT !.source_path = "", !.geometry = nullptr,
                            !.intrinsic_dimensions = <<0, 0>>],
          refreshed |-> TRUE] @@ ReleaseHeld(el, docs, hs)
    ELSE [refreshed |-> TRUE]
         @@ AcquireThenRelease(b, [el EXCEPT !.source_path = ResolveSource(e, el),
                                             !.render_dimensions = computed.box],
                               computed, docs, hs, file)

\* A faulty resize handler that leaves the flag alone.
OnResizeIgnored(el) == el

\* ElementSVG::OnResize
OnResize(el) == [el EXCEPT !.is_dirty = TRUE]

\* ElementSVG::OnAttributeChange: the element, and whether DirtyLayout() was
\* called.
OnAttributeChange(el, changed_attributes) ==
    [el |-> IF "src" \in changed_attributes THEN [el EXCEPT !.source_dirty = TRUE] ELSE el,
     dirty_layout |-> \/ "src" \in changed_attributes
                      \/ "width" \in changed_attributes
                      \/ "height" \in changed_attributes]

\* ElementSVG::OnPropertyChange
OnPropertyChange(el, changed_properties) ==
    IF "ImageColor" \in changed_properties \/ "Opacity" \in changed_properties
    THEN [el EXCEPT !.is_dirty = TRUE]
    ELSE el

\* The dimensions GetIntrinsicDimensions writes: the width attribute when
\* there is one, the document's width otherwise, and the document's height.
Dimensions(el, width) ==
    <<IF width # NoAttribute THEN width ELSE el.intrinsic_dimensions[1],
      el.intrinsic_dimensions[2]>>

\* GetIntrinsicDimensions after UpdateCachedData (l.63-76).
Measured(upd, width) ==
    upd @@ [ret |-> TRUE, dimensions |-> Dimensions(upd.el, width),
            ratio |-> IF upd.el.intrinsic_dimensions[2] > 0
                      THEN Dimensions(upd.el, width) ELSE "untouched"]

\* ElementSVG::GetIntrinsicDimensions: what UpdateCachedData did, the value
\* returned and the dimensions and ratio written ("untouched" when not).
GetIntrinsicDimensions(b, e, el, width, computed, docs, hs, file) ==
    IF el.source_path = "" /\ ~el.source_dirty
    THEN [el |-> el, documents |-> docs, handles |-> hs, calls |-> <<>>,
          asserted |-> "none", refreshed |-> FALSE,
          ret |-> FALSE, dimensions |-> "untouched", ratio |-> "untouched"]
    ELSE Measured(UpdateCachedData(b, e, el, computed, docs, hs, file), width)

\* OnRender after UpdateCachedData: the geometry is rendered when there is one.
Rendered(upd) == upd @@ [rendered |-> upd.el.geometry]

\* ElementSVG::OnRender: what UpdateCachedData did, and the geometry rendered
\* (nullptr: none).
OnRender(b, e, el, computed, docs, hs, file) ==
    Rendered(UpdateCachedData(b, e, el, computed, docs, hs, file))

\* A faulty destructor that forgets the handle.
DestructorLeaks(el, docs, hs) ==
    [el |-> [el EXCEPT !.alive = FALSE], documents |-> docs, handles |-> hs,
     calls |-> <<>>, asserted |-> "none"]

\* ElementSVG::~ElementSVG
Destructor(el, docs, hs) ==
    [el |-> [el EXCEPT !.alive = FALSE]] @@ ReleaseHeld(el, docs, hs)

Alive == {e \in Elements : elements[e].alive}

\* The layouts and file states a call on el can tell apart: one of each when
\* UpdateCachedData returns at once.
LayoutsFor(el) == IF GoesOn(el) THEN Layouts ELSE {CHOOSE computed \in Layouts : TRUE}

FileStatesSeen(el) == IF GoesOn(el) THEN FileStates ELSE {"ok"}

\* The one request of the caller beside the elements, who holds it once.
OtherRequests == {Request("a.svg", <<1, 1>>, FALSE, White)}

\* The document sets or removes one attribute of an element: src, width,
\* height or one the element does not look at.
ChangeAttribute ==
    \E e \in Alive, name \in {"src", "width", "height", "id"}, src \in SrcValues :
        LET changed == [elements[e] EXCEPT !.src = IF name = "src" THEN src ELSE @]
            done == OnAttributeChange(changed, {name})
        IN  /\ asserted = "none"
            /\ src # elements[e].src
            /\ elements' = [elements EXCEPT ![e] = done.el]
            /\ last' = [op |-> "OnAttributeChange", element |-> e, changed |-> name,
                        dirty_layout |-> done.dirty_layout, calls |-> <<>>]
            /\ UNCHANGED <<effects, decorator, build, documents, handles, held, asserted>>

\* Layout gives the element a box of another size.
Resize ==
    \E e \in Alive :
        /\ asserted = "none"
        /\ elements' = [elements EXCEPT ![e] = OnResize(@)]
        /\ last' = [op |-> "OnResize", element |-> e, calls |-> <<>>]
        /\ UNCHANGED <<effects, decorator, build, documents, handles, held, asserted>>

\* One computed property of the element changes.
ChangeProperty ==
    \E e \in Alive, id \in PropertyIds :
        /\ asserted = "none"
        /\ elements' = [elements EXCEPT ![e] = OnPropertyChange(@, {id})]
        /\ last' = [op |-> "OnPropertyChange", element |-> e, changed |-> id, calls |-> <<>>]
        /\ UNCHANGED <<effects, decorator, build, documents, handles, held, asserted>>

\* The element is rendered.
Render ==
    \E e \in Alive : \E computed \in LayoutsFor(elements[e]), file \in FileStatesSeen(elements[e]) :
        \E done \in {OnRender(build, e, elements[e], computed, documents, handles, file)} :
            /\ asserted = "none"
            /\ elements' = [elements EXCEPT ![e] = done.el]
            /\ documents' = done.documents
            /\ handles' = done.handles
            /\ asserted' = done.asserted
            /\ last' = [op |-> "OnRender", element |-> e, refreshed |-> done.refreshed,
                        calls |-> done.calls, rendered |-> done.rendered]
            /\ UNCHANGED <<effects, decorator, build, held>>

\* Layout asks the element for its intrinsic size.
Query ==
    \E e \in Alive, width \in WidthValues :
      \E computed \in LayoutsFor(elements[e]), file \in FileStatesSeen(elements[e]) :
        \E done \in {GetIntrinsicDimensions(build, e, elements[e], width, computed,
                                            documents, handles, file)} :
            /\ asserted = "none"
            /\ elements' = [elements EXCEPT ![e] = done.el]
            /\ documents' = done.documents
            /\ handles' = done.handles
            /\ asserted' = done.asserted
            /\ last' = [op |-> "GetIntrinsicDimensions", element |-> e,
                        refreshed |-> done.refreshed, calls |-> done.calls,
                        ret |-> done.ret, dimensions |-> done.dimensions]
            /\ UNCHANGED <<effects, decorator, build, held>>

\* The element is destroyed.
Destroy ==
    \E e \in Alive :
        \E done \in {Destructor(elements[e], documents, handles)} :
            /\ asserted = "none"
            /\ elements' = [elements EXCEPT ![e] = done.el]
            /\ documents' = done.documents
            /\ handles' = done.handles
            /\ asserted' = done.asserted
            /\ last' = [op |-> "~ElementSVG", element |-> e, calls |-> done.calls]
            /\ UNCHANGED <<effects, decorator, build, held>>

\* The elements just constructed, over an empty cache.
InitElement ==
    /\ build = "SVGCache.cpp"
    /\ documents = <<>>
    /\ handles = <<>>
    /\ held = EmptyBag
    /\ last = [op |-> "none"]
    /\ asserted = "none"
    /\ \E is_dirty \in BOOLEAN, source_dirty \in BOOLEAN :
          elements = [e \in Elements |-> ElementSVG(is_dirty, source_dirty)]
    /\ decorator = nullptr
    /\ effects = NoEffects

NextElement ==
    \/ CallGetHandle /\ \A lease \in BagToSet(held') :
                            lease.request \in OtherRequests /\ CopiesIn(lease, held') = 1
    \/ CallReleaseHandle
    \/ ChangeAttribute
    \/ Resize
    \/ ChangeProperty
    \/ Render
    \/ Query
    \/ Destroy

SpecElement == InitElement /\ [][NextElement]_vars

(***************************************************************************)
(* The gradient decorators (Source/Core/DecoratorGradient.cpp)             *)
(*                                                                         *)
(* A float is held as a fraction <<n, d>> in lowest terms with d >= 0:     *)
(* d = 0 gives the values IEEE division produces from a zero divisor,      *)
(* <<1, 0>> (+inf), <<-1, 0>> (-inf) and <<0, 0>> (NaN).  The arithmetic   *)
(* is exact: the rounding of float is not modelled.                        *)
(***************************************************************************)
\* Most colour stops in one color-stop list.
MaxStops == 5

Abs(n) == IF n < 0 THEN -n ELSE n

Sign(n) == IF n < 0 THEN -1 ELSE IF n > 0 THEN 1 ELSE 0

RECURSIVE GCD(_, _)
GCD(a, b) == IF b = 0 THEN a ELSE GCD(b, a % b)

\* n / d as a float.
Float(n, d) ==
    IF d = 0 THEN <<Sign(n), 0>>
    ELSE <<(Sign(d) * n) \div GCD(Abs(n), Abs(d)), Abs(d) \div GCD(Abs(n), Abs(d))>>

NaN == <<0, 0>>

IsNaN(a) == a = NaN

IsFinite(a) == a[2] # 0

\* a + b
Plus(a, b) ==
    IF IsNaN(a) \/ IsNaN(b) THEN NaN
    ELSE IF ~IsFinite(a) /\ ~IsFinite(b) THEN (IF a = b THEN a ELSE NaN)
    ELSE Float(a[1] * b[2] + b[1] * a[2], a[2] * b[2])

\* -a
Negative(a) == <<-a[1], a[2]>>

\* a - b
Minus(a, b) == Plus(a, Negative(b))

\* a * b
Times(a, b) == Float(a[1] * b[1], a[2] * b[2])

\* a / b; a zero divisor is +0.
DividedBy(a, b) ==
    IF IsNaN(a) \/ IsNaN(b) THEN NaN
    ELSE Float((IF b[1] < 0 THEN -1 ELSE 1) * a[1] * b[2], a[2] * Abs(b[1]))

\* a < b: false as soon as one side is NaN.
Less(a, b) ==
    /\ ~IsNaN(a)
    /\ ~IsNaN(b)
    /\ IF IsFinite(a) \/ IsFinite(b) THEN a[1] * b[2] < b[1] * a[2] ELSE a[1] < b[1]

\* Math::Max(a, b)
MathMax(a, b) == IF Less(b, a) THEN a ELSE b

\* Math::Min(a, b)
MathMin(a, b) == IF Less(a, b) THEN a ELSE b

\* Math::AbsoluteValue(a)
AbsoluteValue(a) == <<Abs(a[1]), a[2]>>

NumericValue(number, unit) == [number |-> number, unit |-> unit]

ColorStop(color, position) == [color |-> color, position |-> position]

\* The units with Unit::LENGTH set that the stops below use.
LengthUnits == {"PX"}

\* The position of a stop written without one.
Auto == NumericValue(Float(0, 1), "KEYWORD")

\* Element::ResolveLength of a length in px.
ResolveLength(value) == value.number

\* The first loop of ResolveColorStops (l.57-68) on one stop: lengths and
\* percentages become numbers.
ToNumber(stop, gradient_line_length) ==
    IF stop.position.unit \in LengthUnits
    THEN [stop EXCEPT !.position =
              NumericValue(DividedBy(ResolveLength(stop.position), gradient_line_length),
                           "NUMBER")]
    ELSE IF stop.position.unit = "PERCENT"
    THEN [stop EXCEPT !.position =
              NumericValue(Times(stop.position.number, Float(1, 100)), "NUMBER")]
    ELSE stop

\* resolve_edge_stop
resolve_edge_stop(stop, auto_to_number) ==
    IF stop.position.unit # "NUMBER"
    THEN [stop EXCEPT !.position = NumericValue(auto_to_number, "NUMBER")]
    ELSE stop

\* A faulty edge rule that leaves the last stop alone.
ResolveFirstEdgeOnly(stops) ==
    [stops EXCEPT ![1] = resolve_edge_stop(@, Float(0, 1))]

\* resolve_edge_stop(stops[0], 0.f); resolve_edge_stop(stops[num_stops - 1], 1.f);
\* the first call is seen by the second when there is one stop.
ResolveEdgeStops(stops) ==
    [[stops EXCEPT ![1] = resolve_edge_stop(@, Float(0, 1))]
        EXCEPT ![Len(stops)] = resolve_edge_stop(@, Float(1, 1))]

\* A faulty nudge that updates prev_position only.
NudgeNothing(st, i, update_prev) ==
    [st EXCEPT !.prev_position = IF update_prev THEN st.stops[i].position.number ELSE @]

\* nudge_stop(stops[i], update_prev) in the loop state st: the stop is
\* raised to prev_position, which then follows it when update_prev is set.
nudge_stop(st, i, update_prev) ==
    [st EXCEPT !.stops[i].position.number = MathMax(@, st.prev_position),
               !.prev_position = IF update_prev
                                 THEN MathMax(st.stops[i].position.number, @)
                                 ELSE @]

\* A faulty fraction, j / (num_auto_stops + 1).
FractionFromZero(j, num_auto_stops) == Float(j, num_auto_stops + 1)

\* fraction_along_t0_t1 of the auto stop j (from 0) of a run.
Fraction(j, num_auto_stops) == Float(j + 1, num_auto_stops + 1)

\* stops[j + auto_begin_i].position = NumericValue(t0 + (t1 - t0) * fraction, NUMBER)
Place(st, i, j) ==
    [st EXCEPT !.stops[j + st.auto_begin_i].position =
        NumericValue(Plus(st.stops[st.auto_begin_i - 1].position.number,
                          Times(Minus(st.stops[i].position.number,
                                      st.stops[st.auto_begin_i - 1].position.number),
                                Fraction(j, i - st.auto_begin_i))),
                     "NUMBER")]

\* The inner loop (l.109-114) from j on: the auto stops [auto_begin_i, i) are
\* placed and nudged in turn.
RECURSIVE SpaceAutoStops(_, _, _)
SpaceAutoStops(st, i, j) ==
    IF j >= i - st.auto_begin_i
    THEN st
    ELSE SpaceAutoStops(nudge_stop(Place(st, i, j), j + st.auto_begin_i, TRUE), i, j + 1)

\* One round of the loop over the stops (l.89-118); stops are counted from 1
\* here, so the loop runs over 2..num_stops.
SpaceStop(st, i) ==
    IF st.stops[i].position.unit # "NUMBER"
    THEN [st EXCEPT !.auto_begin_i = IF @ < 0 THEN i ELSE @]
    ELSE IF st.auto_begin_i < 0
    THEN nudge_stop(st, i, TRUE)
    ELSE [nudge_stop(SpaceAutoStops(nudge_stop(st, i, FALSE), i, 0), i, TRUE)
            EXCEPT !.auto_begin_i = -1]

RECURSIVE SpaceStops(_, _)
SpaceStops(st, i) ==
    IF i > Len(st.stops) THEN st ELSE SpaceStops(SpaceStop(st, i), i + 1)

\* The stops after the loop of l.87-119.
EvenlySpaced(stops) ==
    SpaceStops([stops |-> stops, prev_position |-> stops[1].position.number,
                auto_begin_i |-> -1], 2).stops

\* A faulty test that also moves a stop exactly soft_spacing above its
\* predecessor.
TooCloseOrJust(p0, p1, soft_spacing) == ~Less(soft_spacing, Minus(p1, p0))

\* p1 - p0 < soft_spacing
TooClose(p0, p1, soft_spacing) == Less(Minus(p1, p0), soft_spacing)

\* A faulty choice that takes the midpoint whenever the stop is too close.
AlwaysMidpoint(p0, p1, p2, soft_spacing) ==
    IF TooClose(p0, p1, soft_spacing) THEN Times(Float(1, 2), Plus(p2, p0)) ELSE p1

\* new_position of an interior stop (l.129-135).
NewPosition(p0, p1, p2, soft_spacing) ==
    IF TooClose(p0, p1, soft_spacing)
    THEN IF Less(Minus(p2, p0), Times(Float(2, 1), soft_spacing))
         THEN Times(Float(1, 2), Plus(p2, p0))
         ELSE Plus(p0, soft_spacing)
    ELSE p1

\* The last loop (l.122-136) from stop i on (counted from 1: 2..num_stops-1).
RECURSIVE SoftSpaced(_, _, _)
SoftSpaced(stops, soft_spacing, i) ==
    IF i >= Len(stops)
    THEN stops
    ELSE SoftSpaced([stops EXCEPT ![i].position.number =
                        NewPosition(stops[i - 1].position.number, @,
                                    stops[i + 1].position.number, soft_spacing)],
                    soft_spacing, i + 1)

\* The stops as the loop of l.87-119 leaves them.
BeforeSoftSpacing(gradient_line_length, unresolved_stops) ==
    EvenlySpaced(ResolveEdgeStops([i \in 1..Len(unresolved_stops) |->
                                      ToNumber(unresolved_stops[i], gradient_line_length)]))

\* ResolveColorStops(element, gradient_line_length, soft_spacing, unresolved_stops)
ResolveColorStops(gradient_line_length, soft_spacing, unresolved_stops) ==
    SoftSpaced(BeforeSoftSpacing(gradient_line_length, unresolved_stops), soft_spacing, 2)

\* The positions a stop is written with: none, a number, a percentage or a
\* length.
StopPositions ==
    {Auto,
     NumericValue(Float(0, 1), "NUMBER"),
     NumericValue(Float(1, 1), "NUMBER"),
     NumericValue(Float(150, 1), "PERCENT"),
     NumericValue(Float(1, 1), "PX")}

\* The stops of the lists below: each position in one colour.
Stops ==
    {ColorStop(IF position.unit \in {"NUMBER", "PX"}
               THEN Colourb(255, 0, 0, 255) ELSE Colourb(0, 0, 255, 255), position) :
        position \in StopPositions}

\* The color-stop lists of up to MaxStops stops.
ColorStopLists == UNION {[1..n -> Stops] : n \in 0..MaxStops}

\* The gradient lines a list is resolved along: <<gradient_line_length,
\* soft_spacing>>, the length positive and the spacing not negative.
GradientLines ==
    {<<Float(1, 1), Float(1, 1)>>, <<Float(2, 1), Float(0, 1)>>, <<Float(4, 1), Float(1, 4)>>}

\* A linear-gradient decorator after Initialise.
DecoratorLinearGradient(repeating, angle, color_stops) ==
    [type |-> "linear-gradient", repeating |-> repeating, angle |-> angle,
     color_stops |-> color_stops]

\* A list is resolved along some gradient line.
CallResolveColorStops ==
    \E line \in GradientLines :
        /\ decorator # nullptr
        /\ last' = [op |-> "ResolveColorStops",
                    unresolved_stops |-> decorator.color_stops,
                    gradient_line_length |-> line[1],
                    soft_spacing |-> line[2],
                    evenly_spaced |-> BeforeSoftSpacing(line[1], decorator.color_stops),
                    stops |-> ResolveColorStops(line[1], line[2], decorator.color_stops)]
        /\ UNCHANGED <<effects, decorator, build, documents, handles, held, asserted, elements>>

\* Any decorator that Initialise accepted: its list is not empty.
InitResolve ==
    /\ build = "part_001"
    /\ documents = <<>>
    /\ handles = <<>>
    /\ held = EmptyBag
    /\ last = [op |-> "none"]
    /\ asserted = "none"
    /\ elements = <<>>
    /\ \E color_stops \in ColorStopLists \ {<<>>} :
          decorator = DecoratorLinearGradient(FALSE, 0, color_stops)
    /\ effects = NoEffects

NextResolve == CallResolveColorStops

SpecResolve == InitResolve /\ [][NextResolve]_vars

(***************************************************************************)
(* Instancing, and the shape of the linear and the radial gradient         *)
(***************************************************************************)
\* A faulty Initialise that accepts every list.
InitialiseAnything(members) == TRUE

\* DecoratorLinearGradient::Initialise / DecoratorRadialGradient::Initialise:
\* the members are stored and the return value says whether there are stops.
Initialise(members) == members.color_stops # <<>>

\* A radial-gradient decorator after Initialise.
DecoratorRadialGradient(repeating, shape, size, position, color_stops) ==
    [type |-> "radial-gradient", repeating |-> repeating, shape |-> shape, size |-> size,
     position |-> position, color_stops |-> color_stops]

\* MakeShared<...>(); if (decorator->Initialise(...)) return decorator; return nullptr;
Initialised(members) == IF Initialise(members) THEN members ELSE nullptr

\* A Property: its unit and its value, which is a keyword, a number or a
\* color-stop list as the unit says.
Property(unit, keyword, number, color_stops) ==
    [unit |-> unit, keyword |-> keyword, number |-> number, color_stops |-> color_stops]

\* What GetProperty returns for an id the dictionary does not hold.
NoProperty == Property("nullptr", "", Float(0, 1), <<>>)

Keyword(keyword) == Property("KEYWORD", keyword, Float(0, 1), <<>>)

Numeric(number, unit) == Property(unit, "", number, <<>>)

\* Property::GetNumericValue
GetNumericValue(property) == NumericValue(property.number, property.unit)

\* The units with Unit::ANGLE set.
AngleUnits == {"DEG", "RAD"}

\* A quarter turn, in degrees.
QuarterTurn == 90

\* ComputeAngle of an angle in degrees; angles are held in quarter turns.
ComputeAngle(value) == value.number[1] \div QuarterTurn

\* DecoratorLinearGradientInstancer::InstanceDecorator
InstanceLinearGradient(name, properties_) ==
    IF properties_.angle = NoProperty
    THEN nullptr
    ELSE IF properties_.angle.unit \notin AngleUnits
    THEN nullptr
    ELSE IF properties_.color_stop_list = NoProperty
    THEN nullptr
    ELSE IF properties_.color_stop_list.unit # "COLORSTOPLIST"
    THEN nullptr
    ELSE Initialised(DecoratorLinearGradient(name = "repeating-linear-gradient",
                                             ComputeAngle(GetNumericValue(properties_.angle)),
                                             properties_.color_stop_list.color_stops))

\* Shape: as the ending-shape keyword says, or by the kind of the sizes.
ShapeOf(p_ending_shape, p_size_x, p_size_y) ==
    IF p_ending_shape.keyword = "unspecified"
    THEN IF p_size_x.unit \in LengthUnits /\ p_size_y.unit = "KEYWORD"
         THEN "circle" ELSE "ellipse"
    ELSE p_ending_shape.keyword

\* Size: a keyword, or a length / percentage pair whose y falls back to x.
SizeOf(p_size_x, p_size_y) ==
    IF p_size_x.unit = "KEYWORD"
    THEN [type |-> p_size_x.keyword, x |-> NumericValue(Float(0, 1), "UNKNOWN"),
          y |-> NumericValue(Float(0, 1), "UNKNOWN")]
    ELSE [type |-> "length-percentage",
          x |-> GetNumericValue(p_size_x),
          y |-> IF p_size_y.unit = "KEYWORD"
                THEN GetNumericValue(p_size_x)
                ELSE GetNumericValue(p_size_y)]

\* One coordinate of the position: left/top, center and right/bottom are 0,
\* 50 and 100 percent.
PositionOf(property) ==
    IF property.unit = "KEYWORD"
    THEN NumericValue(Float(IF property.keyword \in {"left", "top"} THEN 0
                            ELSE IF property.keyword = "center" THEN 50 ELSE 100, 1),
                      "PERCENT")
    ELSE GetNumericValue(property)

\* DecoratorRadialGradientInstancer::InstanceDecorator
InstanceRadialGradient(name, properties_) ==
    IF \E id \in DOMAIN properties_ : properties_[id] = NoProperty
    THEN nullptr
    ELSE IF properties_.color_stop_list.unit # "COLORSTOPLIST"
    THEN nullptr
    ELSE Initialised(DecoratorRadialGradient(
             name = "repeating-radial-gradient",
             ShapeOf(properties_.ending_shape, properties_.size_x, properties_.size_y),
             SizeOf(properties_.size_x, properties_.size_y),
             [x |-> PositionOf(properties_.position_x),
              y |-> PositionOf(properties_.position_y)],
             properties_.color_stop_list.color_stops))

\* Vector2f arithmetic.
Vector2f(x, y) == <<x, y>>

VectorMinus(a, b) == <<Minus(a[1], b[1]), Minus(a[2], b[2])>>

VectorTimes(k, a) == <<Times(k, a[1]), Times(k, a[2])>>

DotProduct(a, b) == Plus(Times(a[1], b[1]), Times(a[2], b[2]))

VectorMin(a, b) == <<MathMin(a[1], b[1]), MathMin(a[2], b[2])>>

VectorMax(a, b) == <<MathMax(a[1], b[1]), MathMax(a[2], b[2])>>

VectorAbs(a) == <<AbsoluteValue(a[1]), AbsoluteValue(a[2])>>

\* Math::Sin and Math::Cos of an angle of so many quarter turns.
Sin(angle) == Float(<<0, 1, 0, -1>>[(angle % 4) + 1], 1)

Cos(angle) == Float(<<1, 0, -1, 0>>[(angle % 4) + 1], 1)

\* uint(NormaliseAnglePositive(angle) * (4.f / (2.f * RMLUI_PI))) % 4u: on a
\* whole quarter turn other than 0 the float product lies at the quarter or
\* just below it, so the quadrant is the angle's or the one before.
Quadrants(angle) == IF angle % 4 = 0 THEN {0} ELSE {angle % 4, (angle % 4) - 1}

\* IntersectionPointToLineNormal
IntersectionPointToLineNormal(point, line_point, line_vector) ==
    VectorMinus(line_point,
                VectorTimes(DotProduct(VectorMinus(line_point, point), line_vector),
                            line_vector))

\* corners[]: TOP_RIGHT, BOTTOM_RIGHT, BOTTOM_LEFT, TOP_LEFT.
Corners(dim) ==
    <<Vector2f(dim[1], Float(0, 1)), dim, Vector2f(Float(0, 1), dim[2]),
      Vector2f(Float(0, 1), Float(0, 1))>>

\* distance (l.288)
Distance(dim, line_vector) ==
    Plus(AbsoluteValue(Times(dim[1], line_vector[1])),
         AbsoluteValue(Times(Negative(dim[2]), line_vector[2])))

\* The shape for a line_vector and a quadrant.
LinearGradientShape(dim, quadrant, line_vector) ==
    [p0 |-> IntersectionPointToLineNormal(Corners(dim)[((quadrant + 2) % 4) + 1],
                                          VectorTimes(Float(1, 2), dim), line_vector),
     p1 |-> IntersectionPointToLineNormal(Corners(dim)[quadrant + 1],
                                          VectorTimes(Float(1, 2), dim), line_vector),
     length |-> Distance(dim, line_vector)]

\* A faulty shape that starts from the corner of the angle's quadrant.
ShapeReversed(angle, dim, quadrant) ==
    LinearGradientShape(dim, (quadrant + 2) % 4, Vector2f(Sin(angle), Negative(Cos(angle))))

\* CalculateLinearGradientShape(angle, dim), the quadrant being one of
\* Quadrants(angle).
CalculateLinearGradientShape(angle, dim, quadrant) ==
    LinearGradientShape(dim, quadrant, Vector2f(Sin(angle), Negative(Cos(angle))))

\* DecoratorLinearGradient::GenerateElementData from the shape on: the
\* parameters CompileShader is given.
LinearGradientData(members, gradient_shape) ==
    [angle |-> members.angle, p0 |-> gradient_shape.p0, p1 |-> gradient_shape.p1,
     length |-> gradient_shape.length, repeating |-> members.repeating,
     soft_spacing |-> DividedBy(Float(1, 1), gradient_shape.length),
     color_stop_list |-> ResolveColorStops(gradient_shape.length,
                                           DividedBy(Float(1, 1), gradient_shape.length),
                                           members.color_stops)]

\* A non-negative float held by its square: the value of Math::SquareRoot.
SquareRoot(x) == [squared |-> x]

\* A non-negative float x as such a root.
RootOf(x) == SquareRoot(Times(x, x))

\* root * k, k not negative.
RootTimes(root, k) == SquareRoot(Times(root.squared, Times(k, k)))

RootMax(a, b) == IF Less(b.squared, a.squared) THEN a ELSE b

\* Vector2f::Magnitude
Magnitude(r) == SquareRoot(Plus(Times(r[1], r[1]), Times(r[2], r[2])))

\* Element::ResolveNumericValue(value, base_value): a percentage of the base
\* value, or the length in px.
ResolveNumericValue(value, base_value) ==
    IF value.unit = "PERCENT"
    THEN Times(base_value, Times(value.number, Float(1, 100)))
    ELSE value.number

\* A faulty ellipse whose radius is the distance to the corner's sides.
EllipseInside(r) == <<RootOf(r[1]), RootOf(r[2])>>

\* The ellipse through a corner at r from the center (l.447-449).
EllipseThrough(r) ==
    <<SquareRoot(Times(Float(2, 1), Times(r[1], r[1]))),
      RootTimes(SquareRoot(Times(Float(2, 1), Times(r[1], r[1]))), DividedBy(r[2], r[1]))>>

\* A faulty closest side that takes the larger of the two.
ClosestSideIsFarthest(c, d) == VectorAbs(VectorMax(c, VectorMinus(d, c)))

\* r for the closest and for the farthest side or corner.
ClosestSide(c, d) == VectorAbs(VectorMin(c, VectorMinus(d, c)))

FarthestSide(c, d) == VectorAbs(VectorMax(c, VectorMinus(d, c)))

\* The radius of one of the corner sizes, from r.
CornerRadius(is_circle, r) ==
    IF is_circle
    THEN <<Magnitude(r), Magnitude(r)>>
    ELSE EllipseThrough(VectorMax(r, Vector2f(Float(1, 1), Float(1, 1))))

\* The radius of an explicit size: x, and for an ellipse y, made positive.
LengthRadius(is_circle, size, d) ==
    <<RootOf(AbsoluteValue(ResolveNumericValue(size.x, d[1]))),
      RootOf(AbsoluteValue(IF is_circle THEN ResolveNumericValue(size.x, d[1])
                           ELSE ResolveNumericValue(size.y, d[2])))>>

\* result.radius after the switch (l.419-460).
Radius(is_circle, size, c, d) ==
    CASE size.type = "closest-side" ->
            IF is_circle
            THEN <<RootOf(MathMin(ClosestSide(c, d)[1], ClosestSide(c, d)[2])),
                   RootOf(MathMin(ClosestSide(c, d)[1], ClosestSide(c, d)[2]))>>
            ELSE <<RootOf(ClosestSide(c, d)[1]), RootOf(ClosestSide(c, d)[2])>>
      [] size.type = "farthest-side" ->
            IF is_circle
            THEN <<RootOf(MathMax(FarthestSide(c, d)[1], FarthestSide(c, d)[2])),
                   RootOf(MathMax(FarthestSide(c, d)[1], FarthestSide(c, d)[2]))>>
            ELSE <<RootOf(FarthestSide(c, d)[1]), RootOf(FarthestSide(c, d)[2])>>
      [] size.type = "closest-corner" -> CornerRadius(is_circle, ClosestSide(c, d))
      [] size.type = "farthest-corner" -> CornerRadius(is_circle, FarthestSide(c, d))
      [] size.type = "length-percentage" -> LengthRadius(is_circle, size, d)

\* A faulty floor that lets the radius through.
NotFloored(radius) == radius

\* result.radius = Math::Max(result.radius, Vector2f(1.f))
Floored(radius) ==
    <<RootMax(radius[1], RootOf(Float(1, 1))), RootMax(radius[2], RootOf(Float(1, 1)))>>

\* The shape for a center.
RadialGradientShape(shape, size, center, dimensions) ==
    [center |-> center,
     radius |-> Floored(Radius(shape = "circle", size, center, dimensions))]

\* CalculateRadialGradientShape(element, shape, size, position, dimensions)
CalculateRadialGradientShape(shape, size, position, dimensions) ==
    RadialGradientShape(shape, size,
                        Vector2f(ResolveNumericValue(position.x, dimensions[1]),
                                 ResolveNumericValue(position.y, dimensions[2])),
                        dimensions)

\* The angle properties a dictionary may hold: none, an angle of so many
\* quarter turns, or a value that is no angle.
AngleProperties ==
    {NoProperty, Numeric(Float(0, 1), "PX")}
        \cup {Numeric(Float(quarters * QuarterTurn, 1), "DEG") : quarters \in {0, 1, 2, 3}}

\* The color-stop lists of the decorators below.
DecoratorStops ==
    {<<>>,
     <<ColorStop(Colourb(255, 0, 0, 255), Auto), ColorStop(Colourb(0, 0, 255, 255), Auto)>>,
     <<ColorStop(Colourb(255, 0, 0, 255), NumericValue(Float(1, 1), "PX")),
       ColorStop(Colourb(0, 0, 255, 255), NumericValue(Float(1, 1), "PX")),
       ColorStop(Colourb(0, 0, 255, 255), NumericValue(Float(150, 1), "PERCENT"))>>}

\* The color-stops properties: none, a list, or a value that is no list.
ColorStopProperties ==
    {NoProperty, Property("STRING", "red", Float(0, 1), <<>>)}
        \cup {Property("COLORSTOPLIST", "", Float(0, 1), color_stops) :
                 color_stops \in DecoratorStops}

LinearProperties == [angle : AngleProperties, color_stop_list : ColorStopProperties]

\* The properties of the radial instancer, all present.
RadialPropertiesPresent ==
    [ending_shape : {Keyword("circle"), Keyword("ellipse"), Keyword("unspecified")},
     size_x : {Keyword("closest-side"), Keyword("farthest-side"), Keyword("closest-corner"),
               Keyword("farthest-corner"), Numeric(Float(0, 1), "PX"),
               Numeric(Float(-3, 1), "PX"), Numeric(Float(50, 1), "PERCENT")},
     size_y : {Keyword("unspecified"), Numeric(Float(4, 1), "PX")},
     position_x : {Keyword("left"), Keyword("center"), Numeric(Float(30, 1), "PX"),
                   Numeric(Float(-10, 1), "PX")},
     position_y : {Keyword("center"), Keyword("bottom")},
     color_stop_list : ColorStopProperties \ {NoProperty}]

\* The same with at most one property missing from the dictionary.
RadialProperties ==
    RadialPropertiesPresent
        \cup {[properties_ EXCEPT ![id] = NoProperty] :
                 properties_ \in {p \in RadialPropertiesPresent :
                                     /\ p.size_x = Keyword("farthest-corner")
                                     /\ p.position_x = Keyword("center")},
                 id \in {"ending_shape", "size_x", "size_y", "position_x", "position_y",
                         "color_stop_list"}}

\* The box sizes of the elements: empty, flat, and with an area.
Boxes ==
    {Vector2f(Float(0, 1), Float(0, 1)), Vector2f(Float(100, 1), Float(0, 1)),
     Vector2f(Float(1, 1), Float(3, 1)), Vector2f(Float(100, 1), Float(200, 1)),
     Vector2f(Float(200, 1), Float(100, 1))}

\* The linear-gradient instancer is asked for a decorator.
InstanceLinear ==
    \E name \in {"linear-gradient", "repeating-linear-gradient"},
       properties_ \in LinearProperties :
        /\ decorator = nullptr
        /\ last.op = "none"
        /\ decorator' = InstanceLinearGradient(name, properties_)
        /\ last' = [op |-> "InstanceDecorator", name |-> name, properties |-> properties_]
        /\ UNCHANGED <<effects, build, documents, handles, held, asserted, elements>>

\* The radial-gradient instancer is asked for a decorator.
InstanceRadial ==
    \E name \in {"radial-gradient", "repeating-radial-gradient"},
       properties_ \in RadialProperties :
        /\ decorator = nullptr
        /\ last.op = "none"
        /\ decorator' = InstanceRadialGradient(name, properties_)
        /\ last' = [op |-> "InstanceDecorator", name |-> name, properties |-> properties_]
        /\ UNCHANGED <<effects, build, documents, handles, held, asserted, elements>>

\* DecoratorLinearGradient::GenerateElementData on an element with or
\* without a render interface: the shader parameters, or none.
GenerateLinear ==
    \E dimensions \in Boxes, render_interface \in BOOLEAN :
      \E quadrant \in Quadrants(IF decorator # nullptr /\ decorator.type = "linear-gradient"
                                THEN decorator.angle ELSE 0) :
        /\ decorator # nullptr
        /\ decorator.type = "linear-gradient"
        /\ last' = [op |-> "GenerateElementData", type |-> "linear-gradient",
                    dimensions |-> dimensions,
                    shader |-> IF render_interface
                               THEN LinearGradientData(
                                        decorator,
                                        CalculateLinearGradientShape(decorator.angle,
                                                                     dimensions, quadrant))
                               ELSE nullptr]
        /\ UNCHANGED <<effects, decorator, build, documents, handles, held, asserted, elements>>

\* The call DecoratorRadialGradient::GenerateElementData makes to
\* CalculateRadialGradientShape (l.477).
ShapeRadial ==
    \E dimensions \in Boxes :
        /\ decorator # nullptr
        /\ decorator.type = "radial-gradient"
        /\ last' = [op |-> "CalculateRadialGradientShape", dimensions |-> dimensions,
                    gradient_shape |-> CalculateRadialGradientShape(
                                           decorator.shape, decorator.size,
                                           decorator.position, dimensions)]
        /\ UNCHANGED <<effects, decorator, build, documents, handles, held, asserted, elements>>

\* No decorator yet.
InitDecorator ==
    /\ build = "part_001"
    /\ documents = <<>>
    /\ handles = <<>>
    /\ held = EmptyBag
    /\ last = [op |-> "none"]
    /\ asserted = "none"
    /\ elements = <<>>
    /\ decorator = nullptr
    /\ effects = NoEffects

NextDecorator ==
    \/ InstanceLinear
    \/ InstanceRadial
    \/ GenerateLinear
    \/ ShapeRadial

SpecDecorator == InitDecorator /\ [][NextDecorator]_vars

(***************************************************************************)
(* GenerateElementData / ReleaseElementData of the two decorators          *)
(* (DecoratorGradient.cpp l.293-341, l.466-513).                           *)
(*                                                                         *)
(* `effects` holds what the render interface was asked: compiled, the      *)
(* names passed to CompileShader in call order, and released, the handles  *)
(* passed to ReleaseCompiledShader in call order; and pool, the            *)
(* BasicEffectElementData records alive, by address.  The handle of the    *)
(* n-th CompileShader call is n: which values a render interface hands out *)
(* is its own business, fresh ones let a release be told from another.     *)
(* The parameters compiled with the name are those of GenerateLinear and   *)
(* ShapeRadial above.                                                      *)
(***************************************************************************)
\* Most CompileShader calls in a run, and most element-data records alive at
\* once.
MaxCompiles == 3

MaxElementData == 2

INVALID_DECORATORDATAHANDLE == 0

\* render_interface->CompileShader(name, parameters)
CompileShader(fx, name) == [fx EXCEPT !.compiled = Append(@, name)]

\* GetBasicEffectElementDataPool().AllocateAndConstruct(geometry, effect): a
\* record at the lowest free address.
AllocateAndConstruct(fx, render_interface, effect) ==
    LET element_data == CHOOSE p \in 1..(Cardinality(DOMAIN fx.pool) + 1) :
                            p \notin DOMAIN fx.pool /\ \A q \in 1..(p - 1) : q \in DOMAIN fx.pool
    IN  [ret |-> element_data,
         effects |-> [fx EXCEPT !.pool = MapPut(@, element_data,
                                                [geometry |-> [render_interface |-> render_interface],
                                                 effect |-> effect])]]

\* GenerateElementData of the decorator `members` on an element with or
\* without a render interface: the handle returned and the effects after.
GenerateElementData(fx, members, render_interface) ==
    IF ~render_interface
    THEN [ret |-> INVALID_DECORATORDATAHANDLE, effects |-> fx]
    ELSE AllocateAndConstruct(CompileShader(fx, members.type), render_interface,
                              Len(fx.compiled) + 1)

\* A faulty release that frees the record and leaves the shader compiled.
ReleaseKeepsShader(fx, handle) == [fx EXCEPT !.pool = MapErase(@, handle)]

\* ReleaseElementData(handle): ReleaseCompiledShader(element_data->effect),
\* then DestroyAndDeallocate(element_data).
ReleaseElementData(fx, handle) ==
    [fx EXCEPT !.released = Append(@, fx.pool[handle].effect),
               !.pool = MapErase(@, handle)]

\* The decorators the lifecycle is run with: the linear ones of every angle
\* and list, and the centred farthest-corner radial ones.
LifecycleDecorators ==
    {InstanceLinearGradient("linear-gradient", properties_) :
        properties_ \in {p \in LinearProperties :
                            InstanceLinearGradient("linear-gradient", p) # nullptr}}
    \cup {InstanceRadialGradient("radial-gradient", properties_) :
             properties_ \in {p \in RadialPropertiesPresent :
                                 /\ p.size_x = Keyword("farthest-corner")
                                 /\ p.position_x = Keyword("center")
                                 /\ InstanceRadialGradient("radial-gradient", p) # nullptr}}

\* An element asks the decorator for its data.
Generate ==
    \E render_interface \in BOOLEAN :
        \E done \in {GenerateElementData(effects, decorator, render_interface)} :
            /\ ~render_interface \/ Len(effects.compiled) < MaxCompiles
            /\ ~render_interface \/ Cardinality(DOMAIN effects.pool) < MaxElementData
            /\ effects' = done.effects
            /\ last' = [op |-> "GenerateElementData", type |-> decorator.type,
                        render_interface |-> render_interface, ret |-> done.ret]
            /\ UNCHANGED <<decorator, build, documents, handles, held, asserted, elements>>

\* An element gives back the data it got.
Release ==
    \E handle \in DOMAIN effects.pool :
        /\ effects' = ReleaseElementData(effects, handle)
        /\ last' = [op |-> "ReleaseElementData", type |-> decorator.type,
                    render_interface |-> TRUE, ret |-> handle]
        /\ UNCHANGED <<decorator, build, documents, handles, held, asserted, elements>>

\* One decorator, no data generated yet.
InitLifecycle ==
    /\ build = "part_001"
    /\ documents = <<>>
    /\ handles = <<>>
    /\ held = EmptyBag
    /\ last = [op |-> "none"]
    /\ asserted = "none"
    /\ elements = <<>>
    /\ decorator \in LifecycleDecorators
    /\ effects = NoEffects

NextLifecycle ==
    \/ Generate
    \/ Release

SpecLifecycle == InitLifecycle /\ [][NextLifecycle]_vars

(***************************************************************************)
(* Properties                                                              *)
(***************************************************************************)
\* The render sizes of a document with the given dimensions, by index and by value.
SizeIndices(doc, d) == {i \in 1..Len(doc.render_sizes) : doc.render_sizes[i].render_dimensions = d}

SizesOf(docs, source, d) ==
    IF source \in DOMAIN docs
    THEN {docs[source].render_sizes[i] : i \in SizeIndices(docs[source], d)}
    ELSE {}

\* The leases a release step gives back: l when held' is held less one copy of l.
Released(l) == l \in Leases /\ held' = held (-) SetToBag({l})

\* C1: when every outstanding lease comes from one and the same request
\* (asked for once or twice or more), all those calls returned one handle
\* value, the handles table holds that one entry with a reference count equal
\* to the number of leases, and the documents table holds exactly one
\* document with one render size with one colour-geometry entry, the one the
\* handle references; once the last lease is released both tables are empty.
C1_Deduplication ==
    /\ \A l1, l2 \in Leases : l1.request = l2.request => l1.handle = l2.handle
    /\ \A l \in Leases :
          Leases = {l} =>
              LET source == l.request.source
              IN  /\ l.handle # InvalidHandle
                  /\ DOMAIN handles = {l.handle}
                  /\ handles[l.handle].ref_count = CopiesIn(l, held)
                  /\ DOMAIN documents = {source}
                  /\ Len(documents[source].render_sizes) = 1
                  /\ documents[source].render_sizes[1].render_dimensions = l.request.dimensions
                  /\ Len(documents[source].render_sizes[1].colours) = 1
                  /\ documents[source].render_sizes[1].colours[1].geometry.ptr =
                         handles[l.handle].geometry
    /\ held = EmptyBag => DOMAIN handles = {} /\ DOMAIN documents = {}

\* Two GetHandle calls with identical parameters have just been made.
C1_SameRequestTwice ==
    /\ last.op = "GetHandle"
    /\ \E l \in Leases : Leases = {l} /\ CopiesIn(l, held) = 2 /\ handles[l.handle].ref_count = 2

C2_TwoSizes ==
    \A l1, l2 \in Leases :
        (/\ l1.request.source = l2.request.source
         /\ l1.request.dimensions # l2.request.dimensions) =>
            LET source == l1.request.source
                asked == {l.request.dimensions : l \in {x \in Leases : x.request.source = source}}
            IN  /\ l1.handle # l2.handle
                /\ {l1.handle, l2.handle} \subseteq DOMAIN handles
                /\ source \in DOMAIN documents
                /\ Len(documents[source].render_sizes) = Cardinality(asked)
                /\ Cardinality(SizesOf(documents, source, l1.request.dimensions)) = 1
                /\ Cardinality(SizesOf(documents, source, l2.request.dimensions)) = 1
                /\ {s.texture.ptr : s \in SizesOf(documents, source, l1.request.dimensions)}
                   # {s.texture.ptr : s \in SizesOf(documents, source, l2.request.dimensions)}

C2_ReleaseKeepsOtherSize ==
    \A l \in Leases :
        Released(l) =>
            LET source == l.request.source
                same == {m \in BagToSet(held') : /\ m.request.source = source
                                                 /\ m.request.dimensions = l.request.dimensions}
                other == {m \in BagToSet(held') : /\ m.request.source = source
                                                  /\ m.request.dimensions # l.request.dimensions}
            IN  /\ \A m \in other :
                      /\ m.handle \in DOMAIN handles'
                      /\ handles'[m.handle] = handles[m.handle]
                      /\ source \in DOMAIN documents'
                      /\ documents'[source].intrinsic_dimensions =
                             documents[source].intrinsic_dimensions
                      /\ documents'[source].svg_document = documents[source].svg_document
                      /\ SizesOf(documents', source, m.request.dimensions) =
                             SizesOf(documents, source, m.request.dimensions)
                /\ same = {} => SizesOf(documents', source, l.request.dimensions) = {}

\* C2: leases on one source at two different pixel dimensions have distinct
\* handles and are backed by one document entry holding exactly one render
\* size (with a texture of its own) per dimensions asked for; releasing a
\* lease leaves the handle entry, the document and the whole render-size entry
\* (texture, colours, geometry) of every lease at other dimensions as they
\* were, and removes the released lease's render size when no lease at its
\* dimensions is left.
C2_Isolation == []C2_TwoSizes /\ [][C2_ReleaseKeepsOtherSize]_vars

\* One source is leased at two different dimensions.
C2_TwoDimensionsLive ==
    \E l1, l2 \in Leases :
        /\ l1.request.source = l2.request.source
        /\ l1.request.dimensions # l2.request.dimensions
        /\ Len(documents[l1.request.source].render_sizes) = 2

C3_FailingInputs ==
    \A r \in Requests(build), file \in FileStates :
        (r.source \notin DOMAIN documents /\ (r.source = "" \/ file # "ok")) =>
            LET got == GetHandle(build, documents, handles,
                                 r.source, r.dimensions, r.content_fit, r.colour, file)
            IN  /\ got.ret = InvalidHandle
                /\ got.documents = documents
                /\ got.handles = handles

C3_FailedCallChangesNothing ==
    (last'.op = "GetHandle" /\ last'.failed) =>
        documents' = documents /\ handles' = handles /\ held' = held

\* C3: in every state, a GetHandle call for a source with no cached document
\* whose path is empty, whose file cannot be read or whose data does not
\* parse returns 0 and leaves the documents and handles tables exactly as
\* they were; and every call that returned 0 left both tables as they were.
C3_FailedGetHandle == []C3_FailingInputs /\ [][C3_FailedCallChangesNothing]_vars

\* A GetHandle call has just returned 0 on a cache that holds entries.
C3_FailedOnLoadedCache ==
    /\ last.op = "GetHandle"
    /\ last.failed
    /\ DOMAIN documents # {}
    /\ DOMAIN handles # {}

\* C4: every entry of the handles table has a reference count of at least 1,
\* its source names a document of the documents table, that document has a
\* render size with the handle's dimensions, and that render size holds the
\* colour-geometry entry, with a reference count of at least 1, whose geometry
\* the handle points to.
C4_LiveHandleChain ==
    \A h \in DOMAIN handles :
        /\ handles[h].ref_count >= 1
        /\ handles[h].source \in DOMAIN documents
        /\ \E s \in SizesOf(documents, handles[h].source, handles[h].dimensions) :
              \E k \in 1..Len(s.colours) :
                  /\ s.colours[k].geometry.ptr = handles[h].geometry
                  /\ s.colours[k].ref_count >= 1

\* A handle entry is still there after another handle's entry was erased.
C4_HandleOutlivesRelease ==
    /\ last.op = "ReleaseHandle"
    /\ last.erased
    /\ DOMAIN handles # {}

\* What a holder of `handle` sees through GetGeometry: the pointer, the one
\* live object behind it, and whether that object's texture is alive.
Seen(docs, hs, handle) ==
    LET geometry == GetGeometry(build, docs, hs, handle).geometry
    IN  [geometry |-> geometry,
         objects |-> Deref(docs, geometry),
         textures |-> {o.texture : o \in Deref(docs, geometry)} \cap TexturePtrs(docs)]

C5_HeldGeometryLive ==
    \A l \in Leases :
        LET seen == Seen(documents, handles, l.handle)
        IN  /\ seen.geometry # nullptr
            /\ Cardinality(seen.objects) = 1
            /\ Cardinality(seen.textures) = 1

C5_HeldGeometryStays ==
    (documents' # documents \/ handles' # handles) =>
        \A l \in Leases \cap BagToSet(held') :
            Seen(documents', handles', l.handle) = Seen(documents, handles, l.handle)

\* C5: for every lease a caller holds, GetGeometry returns a non-null pointer
\* to a live geometry object whose texture is alive, and across every
\* GetHandle or ReleaseHandle call that leaves the lease held the pointer, the
\* object behind it and its texture stay the same.
C5_GeometryLifetime == []C5_HeldGeometryLive /\ [][C5_HeldGeometryStays]_vars

\* A lease is still held after the handle of another lease was erased.
C5_HolderOutlivesRelease ==
    /\ last.op = "ReleaseHandle"
    /\ last.erased
    /\ \E l \in Leases : Cardinality(Seen(documents, handles, l.handle).objects) = 1

\* The colour entry a handle entry references.
EntryOf(docs, hs, handle) == {c \in ColourEntries(docs) : c.entry.geometry.ptr = hs[handle].geometry}

C6_ReleaseStep ==
    \A l \in Leases :
        Released(l) =>
            IF handles[l.handle].ref_count > 1
            THEN /\ handles' = [handles EXCEPT ![l.handle].ref_count = @ - 1]
                 /\ documents' = documents
            ELSE /\ handles' = [h \in DOMAIN handles \ {l.handle} |-> handles[h]]
                 /\ \E c \in EntryOf(documents, handles, l.handle) :
                       /\ ColourEntries(documents') =
                              (ColourEntries(documents) \ {c}) \cup
                                  (IF c.entry.ref_count > 1
                                   THEN {[c EXCEPT !.entry.ref_count = @ - 1]} ELSE {})
                       /\ SizeEntries(documents') =
                              {s \in SizeEntries(documents) :
                                  \E d \in ColourEntries(documents') :
                                      d.source = s.source /\ d.texture = s.size.texture.ptr}
                       /\ DOMAIN documents' =
                              {s.source : s \in SizeEntries(documents')}
                       /\ \A source \in DOMAIN documents' :
                              /\ documents'[source].intrinsic_dimensions =
                                     documents[source].intrinsic_dimensions
                              /\ documents'[source].svg_document = documents[source].svg_document

\* C6: a ReleaseHandle on a handle with reference count above 1 only
\* decrements that count; otherwise the handle entry is removed and the count
\* of its colour-geometry entry decremented, that entry being removed when its
\* count reaches zero; a render size goes exactly when it is left without
\* colour entries and a document exactly when it is left without render
\* sizes; every other colour entry, render size and document stays.
C6_ReleaseCascade == [][C6_ReleaseStep]_vars

\* A release has erased a handle entry and the cascade stopped short of
\* emptying the documents table.
C6_CascadeStopped ==
    /\ last.op = "ReleaseHandle"
    /\ last.erased
    /\ DOMAIN documents # {}
    /\ \E source \in DOMAIN documents : Len(documents[source].render_sizes) = 1

\* C7: whenever every lease handed out by GetHandle has been released, the
\* handles table and the documents table are both empty.
C7_BalancedUseEmptiesCache ==
    held = EmptyBag => handles = <<>> /\ documents = <<>>

\* The last outstanding lease has just been released.
C7_AllReleased ==
    /\ last.op = "ReleaseHandle"
    /\ held = EmptyBag

\* C8: two leases on the same source and pixel dimensions that differ in fit
\* mode are backed by two distinct render sizes of the document, each stored
\* and rasterised with the fit mode of its lease and each the home of its
\* lease's geometry and texture.
C8_FitModeIdentity ==
    \A l1, l2 \in Leases :
        (/\ l1.request.source = l2.request.source
         /\ l1.request.dimensions = l2.request.dimensions
         /\ l1.request.content_fit # l2.request.content_fit) =>
            \E s1, s2 \in SizesOf(documents, l1.request.source, l1.request.dimensions) :
                /\ s1 # s2
                /\ s1.texture.ptr # s2.texture.ptr
                /\ \A p \in {<<l1, s1>>, <<l2, s2>>} :
                      /\ p[2].content_fit = p[1].request.content_fit
                      /\ p[2].texture.callback.content_fit = p[1].request.content_fit
                      /\ \E k \in 1..Len(p[2].colours) :
                            /\ p[2].colours[k].geometry.ptr = handles[p[1].handle].geometry
                            /\ p[2].colours[k].geometry.texture = p[2].texture.ptr

\* C9: two leases on the same source, dimensions and fit mode whose tint
\* colours differ have distinct handles, their render size holds one colour
\* entry for each of the two colours, and GetGeometry on each handle returns
\* the geometry built in the colour its lease asked for.
C9_ColourIdentity ==
    \A l1, l2 \in Leases :
        (/\ l1.request.source = l2.request.source
         /\ l1.request.dimensions = l2.request.dimensions
         /\ l1.request.content_fit = l2.request.content_fit
         /\ l1.request.colour # l2.request.colour) =>
            /\ l1.handle # l2.handle
            /\ \A l \in {l1, l2} :
                  /\ \E c \in ColourEntries(documents) :
                        /\ c.source = l.request.source
                        /\ c.render_dimensions = l.request.dimensions
                        /\ c.entry.colour = l.request.colour
                  /\ \A o \in Seen(documents, handles, l.handle).objects :
                        o.quad.colour = l.request.colour

\* C10: whenever a texture invokes its rasterization callback, the callback
\* renders at, sizes its buffer by and reports the pixel dimensions stored in
\* its render-size entry.
C10_CallbackUsesStoredDimensions ==
    last.op = "p_callback" =>
        /\ last.got.rendered = last.render_dimensions
        /\ last.got.total_bytes = 4 * last.render_dimensions[1] * last.render_dimensions[2]
        /\ last.got.dim = last.render_dimensions

C11_UnknownHandleAsserts ==
    \A handle \in ProbeHandles(build) \ DOMAIN handles :
        LET done == ReleaseHandle(documents, handles, handle)
        IN  /\ done.asserted = "found_it != handles.cend()"
            /\ done.documents = documents
            /\ done.handles = handles

C11_UnknownReleaseStep ==
    (last'.op = "ReleaseHandle" /\ ~last'.known) =>
        /\ asserted' = "found_it != handles.cend()"
        /\ documents' = documents
        /\ handles' = handles

\* C11: in every state, ReleaseHandle on a handle value that is not in the
\* handles table (0, a value never issued, a value released down to zero or
\* cleared by a teardown) fails the assertion found_it != handles.cend() with
\* both tables as they were; and every such call made stopped on that
\* assertion.
C11_ReleaseUnknownAsserts == []C11_UnknownHandleAsserts /\ [][C11_UnknownReleaseStep]_vars

\* A caller released an unknown handle value while other handles were live.
C11_UnknownReleased ==
    /\ last.op = "ReleaseHandle"
    /\ ~last.known
    /\ asserted # "none"
    /\ DOMAIN handles # {}

\* What GetGeometry does with a handle value that is not live.
NotLiveIsNull(handle) ==
    LET got == GetGeometry(build, documents, handles, handle)
    IN  /\ got.geometry = nullptr
        /\ got.intrinsic_dimensions = "untouched"
        /\ got.asserted = "none"

C12_GetGeometryLeavesTables ==
    last'.op = "GetGeometry" => documents' = documents /\ handles' = handles

C12_Amended ==
    /\ \A handle \in ProbeHandles(build) \ DOMAIN handles : NotLiveIsNull(handle)
    /\ \A l \in Leases :
          l.handle \in DOMAIN handles =>
              LET got == GetGeometry(build, documents, handles, l.handle)
              IN  /\ got.geometry = handles[l.handle].geometry
                  /\ got.geometry \in GeometryPtrs(documents)
                  /\ got.intrinsic_dimensions =
                         IF l.request.content_fit
                         THEN SvgBox(l.request.source)
                         ELSE documents[l.request.source].intrinsic_dimensions

C13_Teardown ==
    last.op = "Deninitialize" =>
        /\ documents = <<>>
        /\ handles = <<>>
        /\ \A handle \in ProbeHandles(build) : NotLiveIsNull(handle)
        /\ \A r \in Requests(build), file \in FileStates :
              LET got == GetHandle(build, documents, handles,
                                   r.source, r.dimensions, r.content_fit, r.colour, file)
              IN  IF r.source = "" \/ file # "ok"
                  THEN got.ret = InvalidHandle
                  ELSE /\ got.ret # InvalidHandle
                       /\ DOMAIN got.handles = {got.ret}
                       /\ got.handles[got.ret].ref_count = 1
                       /\ DOMAIN got.documents = {r.source}

\* A teardown has run while one request was leased twice.
C13_TornDownWithLeases ==
    /\ last.op = "Deninitialize"
    /\ \E l \in Leases : CopiesIn(l, held) = 2

\* The element whose handler ran last, when that handler was a render or an
\* intrinsic-size query.
Refreshers == {"OnRender", "GetIntrinsicDimensions"}

\* The GetHandle calls among `calls` that returned a handle, and those that
\* returned 0.
Acquired(calls) == {i \in 1..Len(calls) : calls[i].call = "GetHandle" /\ calls[i].handle # InvalidHandle}

Refused(calls) == {i \in 1..Len(calls) : calls[i].call = "GetHandle" /\ calls[i].handle = InvalidHandle}

\* The path the src attribute of e resolves to.
PathOf(e, src) == IF OwnerDocument(e) # "none" THEN JoinPath(OwnerDocument(e), src) ELSE src

C14_RefreshStep ==
    \A e \in Alive :
        (/\ last'.op \in Refreshers
         /\ last'.element = e
         /\ elements[e].is_dirty \/ elements[e].source_dirty) =>
            /\ last'.refreshed
            /\ elements'[e].source_path # "" =>
                  \E i \in 1..Len(last'.calls) : last'.calls[i].call = "GetHandle"

\* C14: on every render and every intrinsic-size query of an element with at
\* least one of its two dirty flags set, the element refreshes its cached
\* data and, its source path being non-empty, calls GetHandle.
C14_RefreshOnAnyDirtyFlag == [][C14_RefreshStep]_vars

C15_SwapStep ==
    \A e \in Alive :
        (/\ last'.op = "OnRender"
         /\ last'.element = e
         /\ elements[e].handle # InvalidHandle
         /\ elements[e].src # ""
         /\ PathOf(e, elements[e].src) # elements[e].source_path
         /\ Refused(last'.calls) = {}) =>
            /\ Len(last'.calls) = 2
            /\ last'.calls[1].call = "GetHandle"
            /\ last'.calls[2].call = "ReleaseHandle"
            /\ last'.calls[2].handle = elements[e].handle
            /\ elements'[e].handle = last'.calls[1].handle
            /\ elements'[e].handle # InvalidHandle
            /\ elements'[e].source_path = PathOf(e, elements[e].src)

\* C15: when an element that holds a handle and whose src attribute names a
\* source other than the one it shows is rendered, and the new source loads,
\* the render makes exactly one GetHandle call, for the new source, releases
\* the handle held before exactly once, and leaves the element holding the
\* new handle.
C15_SourceSwap == [][C15_SwapStep]_vars

C16_ClearStep ==
    \A e \in Alive :
        (/\ last'.op \in Refreshers
         /\ last'.element = e
         /\ elements[e].handle # InvalidHandle
         /\ elements[e].src = ""
         /\ elements[e].source_dirty) =>
            /\ elements'[e].source_path = ""
            /\ elements'[e].handle = InvalidHandle
            /\ elements'[e].geometry = nullptr
            /\ elements'[e].intrinsic_dimensions = <<0, 0>>
            /\ \E i \in 1..Len(last'.calls) :
                  /\ last'.calls[i].call = "ReleaseHandle"
                  /\ last'.calls[i].handle = elements[e].handle

\* C16: when an element that holds a handle and whose src attribute has been
\* cleared is rendered or queried for its intrinsic size, it ends with an
\* empty source path, its handle released, no handle, no geometry and an
\* intrinsic size of (0, 0).
C16_ClearedSource == [][C16_ClearStep]_vars

C17_RefreshStep ==
    \A e \in Alive :
        (/\ last'.op \in Refreshers
         /\ last'.element = e
         /\ elements[e].handle # InvalidHandle
         /\ Acquired(last'.calls) # {}) =>
            LET calls == last'.calls
                old == elements[e].handle
                source == handles[old].source
            IN  /\ old \in DOMAIN handles
                /\ Len(calls) = 2
                /\ calls[1].call = "GetHandle"
                /\ calls[2].call = "ReleaseHandle"
                /\ calls[2].handle = old
                /\ calls[1].handle = old =>
                      \A i \in 1..2 : /\ old \in DOMAIN calls[i].ref_counts
                                      /\ calls[i].ref_counts[old] >= 1
                /\ elements'[e].source_path = source =>
                      /\ source \in DOMAIN documents
                      /\ \A i \in 1..2 : source \in calls[i].documents
                      /\ source \in DOMAIN documents'

\* C17: in every refresh of an element that holds a handle and whose request
\* succeeds, GetHandle is called first and ReleaseHandle on the old handle
\* second and last; when the new handle is the old one its reference count is
\* at least 1 after each of the two calls, and when the new request is for
\* the source of the old handle the document of that source is in the
\* documents table before, between and after the two calls.
C17_AcquireBeforeRelease == [][C17_RefreshStep]_vars

\* A refresh has just asked again for the handle the element held.
C17_SameHandleAgain ==
    /\ last.op = "OnRender"
    /\ Len(last.calls) = 2
    /\ last.calls[1].handle = last.calls[2].handle
    /\ last.calls[1].ref_counts[last.calls[1].handle] = 2

\* C18: after a render or query whose refresh acquired a handle, both dirty
\* flags of the element are false.
C18_FlagsCleared ==
    (last.op \in Refreshers /\ Acquired(last.calls) # {}) =>
        /\ ~elements[last.element].is_dirty
        /\ ~elements[last.element].source_dirty

C19_DirtyStep ==
    \A e \in Alive :
        LET before == elements[e]
            after == elements'[e]
        IN  /\ (last'.op = "OnAttributeChange" /\ last'.element = e) =>
                  IF last'.changed = "src"
                  THEN /\ after.source_dirty
                       /\ last'.dirty_layout
                       /\ after.is_dirty = before.is_dirty
                  ELSE /\ last'.changed \in {"width", "height"} => last'.dirty_layout
                       /\ after.source_dirty = before.source_dirty
                       /\ after.is_dirty = before.is_dirty
            /\ (last'.op = "OnResize" /\ last'.element = e) =>
                  /\ after.is_dirty
                  /\ after.source_dirty = before.source_dirty
            /\ (last'.op = "OnPropertyChange" /\ last'.element = e) =>
                  IF last'.changed \in {"ImageColor", "Opacity"}
                  THEN /\ after.is_dirty
                       /\ after.source_dirty = before.source_dirty
                  ELSE /\ after.is_dirty = before.is_dirty
                       /\ after.source_dirty = before.source_dirty

\* C19: a change of the src attribute sets the source-dirty flag and calls
\* for a layout recompute, leaving the other flag as it was; a resize sets
\* the size/style-dirty flag; a change of image-color or opacity sets the
\* size/style-dirty flag; a change of width or height calls for a layout
\* recompute and leaves both flags as they were; a change of any other
\* property leaves both flags as they were.
C19_DirtyTransitions == [][C19_DirtyStep]_vars

\* A width change has called for a layout recompute on a clean element.
C19_WidthChangedOnClean ==
    /\ last.op = "OnAttributeChange"
    /\ last.changed = "width"
    /\ last.dirty_layout
    /\ ~elements[last.element].is_dirty
    /\ ~elements[last.element].source_dirty

\* The leases on a handle held beside the elements.
OtherLeases(handle) ==
    LET on == {l \in Leases : l.handle = handle}
    IN  IF on = {} THEN 0 ELSE CopiesIn(CHOOSE l \in on : TRUE, held)

C20_NothingLeft ==
    Alive = {} =>
        /\ \A h \in DOMAIN handles : handles[h].ref_count = OtherLeases(h)
        /\ held = EmptyBag => handles = <<>> /\ documents = <<>>

C20_DestroyStep ==
    \A e \in Alive :
        (last'.op = "~ElementSVG" /\ last'.element = e) =>
            LET h == elements[e].handle
            IN  /\ asserted' = "none"
                /\ IF h # InvalidHandle
                   THEN /\ Len(last'.calls) = 1
                        /\ last'.calls[1].call = "ReleaseHandle"
                        /\ last'.calls[1].handle = h
                        /\ h \in DOMAIN handles
                        /\ IF handles[h].ref_count > 1
                           THEN handles' = [handles EXCEPT ![h].ref_count = @ - 1]
                           ELSE h \notin DOMAIN handles'
                   ELSE /\ last'.calls = <<>>
                        /\ handles' = handles
                        /\ documents' = documents

\* C20: destroying an element that holds a handle calls ReleaseHandle on it
\* exactly once, and destroying one that holds none makes no cache call and
\* leaves the tables as they are; once every element is destroyed each
\* handle entry's reference count is the number of leases other callers hold
\* on it, and with no such lease both tables are empty.
C20_DestroyReleases == []C20_NothingLeft /\ [][C20_DestroyStep]_vars

\* The last element has been destroyed and gave its handle back.
C20_DestroyedWithHandle ==
    /\ last.op = "~ElementSVG"
    /\ Len(last.calls) = 1
    /\ Alive = {}

\* The positions of a list of stops, in order.
Positions(stops) == [i \in 1..Len(stops) |-> stops[i].position.number]

NonDecreasing(positions) ==
    \A i \in 1..(Len(positions) - 1) : ~Less(positions[i + 1], positions[i])

\* C21: whatever the units of the positions of a non-empty list, for a
\* positive gradient-line length and a soft spacing that is not negative
\* ResolveColorStops returns as many stops as it was given, in the same
\* colours, every position in unit Number, and the positions never decrease
\* from the first stop to the last.
C21_ResolutionShape ==
    last.op = "ResolveColorStops" =>
        /\ Len(last.stops) = Len(last.unresolved_stops)
        /\ \A i \in 1..Len(last.stops) :
              /\ last.stops[i].color = last.unresolved_stops[i].color
              /\ last.stops[i].position.unit = "NUMBER"
              /\ IsFinite(last.stops[i].position.number)
        /\ NonDecreasing(Positions(last.stops))

\* A list with a position of every unit, its second stop written below its
\* first, was resolved, and the soft-spacing pass moved a stop.
C21_MixedUnitsResolved ==
    /\ last.op = "ResolveColorStops"
    /\ {"KEYWORD", "NUMBER", "PERCENT", "PX"}
           \subseteq {last.unresolved_stops[i].position.unit :
                         i \in 1..Len(last.unresolved_stops)}
    /\ Less(ToNumber(last.unresolved_stops[2], last.gradient_line_length).position.number,
            ToNumber(last.unresolved_stops[1], last.gradient_line_length).position.number)
    /\ last.stops # last.evenly_spaced

\* The positions written in a list once lengths, percentages and the two
\* edges are numbers (interior stops without a position keep unit Keyword).
Written(gradient_line_length, unresolved_stops) ==
    ResolveEdgeStops([i \in 1..Len(unresolved_stops) |->
                         ToNumber(unresolved_stops[i], gradient_line_length)])

IsAuto(position) == position.unit \notin {"NUMBER", "PERCENT"} \cup LengthUnits

\* The largest of 1 and the positions written before the last stop.
RECURSIVE LargestBefore(_, _)
LargestBefore(written, i) ==
    IF i = 0 THEN Float(1, 1)
    ELSE IF written[i].position.unit = "NUMBER"
    THEN MathMax(written[i].position.number, LargestBefore(written, i - 1))
    ELSE LargestBefore(written, i - 1)

\* C22 as stated: a first stop written without a position resolves to
\* exactly 0 and a last stop written without one to exactly 1.
C22_EdgeDefaultsAsStated ==
    last.op = "ResolveColorStops" =>
        /\ IsAuto(last.unresolved_stops[1].position) =>
              last.stops[1].position.number = Float(0, 1)
        /\ IsAuto(last.unresolved_stops[Len(last.unresolved_stops)].position) =>
              last.stops[Len(last.stops)].position.number = Float(1, 1)

\* C22, amended: a first stop written without a position resolves to exactly
\* 0; a last stop written without one, in a list of two stops or more,
\* resolves to 1 or to the largest position written before it when that is
\* more than 1 (exactly 1 when no earlier position exceeds 1); the only stop
\* of a list of one resolves to 0.
C22_EdgeDefaultsAmended ==
    last.op = "ResolveColorStops" =>
        /\ IsAuto(last.unresolved_stops[1].position) =>
              last.stops[1].position.number = Float(0, 1)
        /\ /\ IsAuto(last.unresolved_stops[Len(last.unresolved_stops)].position)
           /\ Len(last.unresolved_stops) >= 2
           => last.stops[Len(last.stops)].position.number =
                  LargestBefore(Written(last.gradient_line_length, last.unresolved_stops),
                                Len(last.stops) - 1)

\* A list of two stops or more whose last stop has no position and follows a
\* position above 1 was resolved.
C22_LastAfterLargerStop ==
    /\ last.op = "ResolveColorStops"
    /\ Len(last.unresolved_stops) >= 2
    /\ IsAuto(last.unresolved_stops[Len(last.unresolved_stops)].position)
    /\ Less(Float(1, 1), last.stops[Len(last.stops)].position.number)

\* The maximal runs of stops without a position in a written list, as
\* <<first, last>> indices: both neighbours have a number.
AutoRuns(written) ==
    {run \in (2..(Len(written) - 1)) \X (2..(Len(written) - 1)) :
        /\ run[1] <= run[2]
        /\ \A i \in run[1]..run[2] : written[i].position.unit # "NUMBER"
        /\ written[run[1] - 1].position.unit = "NUMBER"
        /\ written[run[2] + 1].position.unit = "NUMBER"}

\* Every stop of every run lies at a + (b - a) * k / (n + 1) in `placed`,
\* where a and b are the positions of the run's two neighbours in `bounds`.
EvenlyBetween(written, bounds, placed) ==
    \A run \in AutoRuns(written) :
        LET a == bounds[run[1] - 1].position.number
            b == bounds[run[2] + 1].position.number
        IN  ~Less(b, a) =>
                \A k \in 1..(run[2] - run[1] + 1) :
                    placed[run[1] + k - 1].position.number =
                        Plus(a, Times(Minus(b, a), Float(k, run[2] - run[1] + 2)))

\* C23 as stated: before the soft-spacing pass the k-th stop of a maximal run
\* of n stops without a position lies at a + (b - a) * k / (n + 1), a <= b
\* being the positions written for the stops on either side of the run.
C23_EvenSpacingAsStated ==
    last.op = "ResolveColorStops" =>
        EvenlyBetween(Written(last.gradient_line_length, last.unresolved_stops),
                      Written(last.gradient_line_length, last.unresolved_stops),
                      last.evenly_spaced)

\* C23, amended: before the soft-spacing pass the k-th stop of a maximal run
\* of n stops without a position lies at a + (b - a) * k / (n + 1), a and b
\* being the positions the stops on either side of the run resolve to, each
\* raised to the largest position before it; stops written at 0 and 1 with
\* three such stops between them give 0.25, 0.5 and 0.75.
C23_EvenSpacingAmended ==
    last.op = "ResolveColorStops" =>
        /\ EvenlyBetween(Written(last.gradient_line_length, last.unresolved_stops),
                         last.evenly_spaced, last.evenly_spaced)
        /\ \A i \in 2..Len(last.evenly_spaced) :
              Written(last.gradient_line_length, last.unresolved_stops)[i].position.unit
                  = "NUMBER" =>
                  last.evenly_spaced[i].position.number =
                      MathMax(Written(last.gradient_line_length,
                                      last.unresolved_stops)[i].position.number,
                              last.evenly_spaced[i - 1].position.number)

\* Stops written at 0 and 1 with three stops without a position between them
\* were resolved to 0, 0.25, 0.5, 0.75 and 1.
C23_ThreeAutosBetween ==
    /\ last.op = "ResolveColorStops"
    /\ [i \in 1..Len(last.unresolved_stops) |-> last.unresolved_stops[i].position]
           = <<NumericValue(Float(0, 1), "NUMBER"), Auto, Auto, Auto,
               NumericValue(Float(1, 1), "NUMBER")>>
    /\ Positions(last.evenly_spaced)
           = <<Float(0, 1), Float(1, 4), Float(1, 2), Float(3, 4), Float(1, 1)>>

\* A list is conforming when every position is a number, the positions never
\* decrease and every interior stop is soft_spacing or more above the stop
\* before it.
Conforming(stops, soft_spacing) ==
    /\ \A i \in 1..Len(stops) : stops[i].position.unit = "NUMBER"
    /\ NonDecreasing(Positions(stops))
    /\ \A i \in 2..(Len(stops) - 1) :
          ~Less(Minus(stops[i].position.number, stops[i - 1].position.number), soft_spacing)

\* C24: ResolveColorStops returns a conforming list as it was given, so that
\* resolving its own result of such a list changes nothing.
C24_IdempotentOnConforming ==
    /\ last.op = "ResolveColorStops"
    /\ Conforming(last.unresolved_stops, last.soft_spacing)
    => /\ last.stops = last.unresolved_stops
       /\ ResolveColorStops(last.gradient_line_length, last.soft_spacing, last.stops)
              = last.stops

\* A conforming list of three stops or more, with an interior stop exactly
\* soft_spacing above its predecessor and a last stop closer than that, was
\* resolved with a positive soft spacing.
C24_ConformingResolved ==
    /\ last.op = "ResolveColorStops"
    /\ Len(last.unresolved_stops) >= 3
    /\ Less(Float(0, 1), last.soft_spacing)
    /\ Conforming(last.unresolved_stops, last.soft_spacing)
    /\ Minus(last.unresolved_stops[2].position.number,
             last.unresolved_stops[1].position.number) = last.soft_spacing
    /\ last.unresolved_stops[Len(last.unresolved_stops)].position.number
           = last.unresolved_stops[Len(last.unresolved_stops) - 1].position.number

\* C25 (as stated): whatever the box, DecoratorLinearGradient's
\* GenerateElementData works with an axis length of 1 or more, so that the
\* soft spacing 1 / length and the stops it resolves are finite numbers.
C25_LinearAxisClamped ==
    /\ last.op = "GenerateElementData"
    /\ last.shader # nullptr
    => /\ ~Less(last.shader.length, Float(1, 1))
       /\ IsFinite(last.shader.soft_spacing)
       /\ \A i \in 1..Len(last.shader.color_stop_list) :
             IsFinite(last.shader.color_stop_list[i].position.number)

\* C26: whatever the shape, the size, the center and the box,
\* CalculateRadialGradientShape returns a radius of 1 or more on each axis,
\* so that neither min(radius.x, radius.y) nor radius.x is a zero divisor.
C26_RadiusFloor ==
    last.op = "CalculateRadialGradientShape" =>
        \A axis \in {1, 2} :
            /\ IsFinite(last.gradient_shape.radius[axis].squared)
            /\ ~Less(last.gradient_shape.radius[axis].squared, Float(1, 1))

\* The shape of a decorator with an explicit size of 0 was computed on the
\* empty box: its radius is 1 on both axes.
C26_ZeroRadiusFloored ==
    /\ last.op = "CalculateRadialGradientShape"
    /\ decorator.size.type = "length-percentage"
    /\ decorator.size.x.number = Float(0, 1)
    /\ last.dimensions = Vector2f(Float(0, 1), Float(0, 1))
    /\ last.gradient_shape.radius = <<RootOf(Float(1, 1)), RootOf(Float(1, 1))>>

\* The midpoints of the four edges of a box.
TopMiddle(dim) == Vector2f(Times(Float(1, 2), dim[1]), Float(0, 1))

BottomMiddle(dim) == Vector2f(Times(Float(1, 2), dim[1]), dim[2])

LeftMiddle(dim) == Vector2f(Float(0, 1), Times(Float(1, 2), dim[2]))

RightMiddle(dim) == Vector2f(dim[1], Times(Float(1, 2), dim[2]))

\* The line of a shape: from, to and length.
LineOf(shader) == <<shader.p0, shader.p1, shader.length>>

\* C27: on a W x H box the gradient line of angle 0 runs from the middle of
\* the bottom edge to the middle of the top edge with length H, that of 90
\* degrees from the middle of the left edge to the middle of the right edge
\* with length W, those of 180 and 270 degrees the same reversed; the two
\* points are as far apart as the length says.
C27_CardinalAngles ==
    /\ last.op = "GenerateElementData"
    /\ last.shader # nullptr
    => /\ last.shader.angle = 0 =>
              LineOf(last.shader) = <<BottomMiddle(last.dimensions),
                                      TopMiddle(last.dimensions), last.dimensions[2]>>
       /\ last.shader.angle = 1 =>
              LineOf(last.shader) = <<LeftMiddle(last.dimensions),
                                      RightMiddle(last.dimensions), last.dimensions[1]>>
       /\ last.shader.angle = 2 =>
              LineOf(last.shader) = <<TopMiddle(last.dimensions),
                                      BottomMiddle(last.dimensions), last.dimensions[2]>>
       /\ last.shader.angle = 3 =>
              LineOf(last.shader) = <<RightMiddle(last.dimensions),
                                      LeftMiddle(last.dimensions), last.dimensions[1]>>
       /\ Plus(AbsoluteValue(Minus(last.shader.p1[1], last.shader.p0[1])),
               AbsoluteValue(Minus(last.shader.p1[2], last.shader.p0[2])))
              = last.shader.length

\* A gradient of 90 degrees was laid over a 100 x 200 box: its axis is 100
\* long.
C27_RightOn100x200 ==
    /\ last.op = "GenerateElementData"
    /\ last.shader # nullptr
    /\ last.shader.angle = 1
    /\ last.dimensions = Vector2f(Float(100, 1), Float(200, 1))
    /\ last.shader.length = Float(100, 1)

\* The ellipse sized farthest-corner of a decorator centred in its box.
CentredFarthestCornerEllipse ==
    /\ last.op = "CalculateRadialGradientShape"
    /\ decorator.shape = "ellipse"
    /\ decorator.size.type = "farthest-corner"
    /\ decorator.position.x = NumericValue(Float(50, 1), "PERCENT")
    /\ decorator.position.y = NumericValue(Float(50, 1), "PERCENT")

\* From the center of a box to its corners, per axis.
HalfBox(dimensions) == VectorTimes(Float(1, 2), dimensions)

\* rx^2 = 2 dx^2 and ry^2 = 2 dy^2
ThroughCorner(radius, offset) ==
    /\ radius[1].squared = Times(Float(2, 1), Times(offset[1], offset[1]))
    /\ radius[2].squared = Times(Float(2, 1), Times(offset[2], offset[2]))

\* C28 as stated: the radius of a farthest-corner ellipse centred in a box
\* has rx^2 = 2 dx^2 and ry^2 = 2 dy^2 for the offset (dx, dy) from the
\* center to the corner, which therefore lies at normalized distance 1.
C28_ThroughCornerAsStated ==
    CentredFarthestCornerEllipse =>
        ThroughCorner(last.gradient_shape.radius, HalfBox(last.dimensions))

\* C28, amended: the same for the offset with each axis raised to 1 at
\* least, so that the ellipse passes through the corner when the corner lies
\* 1 or more from the center on both axes (as on a 200 x 100 box).
C28_ThroughCornerAmended ==
    CentredFarthestCornerEllipse =>
        ThroughCorner(last.gradient_shape.radius,
                      VectorMax(HalfBox(last.dimensions), Vector2f(Float(1, 1), Float(1, 1))))

\* The farthest-corner ellipse centred in a 200 x 100 box was computed: its
\* radius squared is 20000 by 5000.
C28_CentredOn200x100 ==
    /\ CentredFarthestCornerEllipse
    /\ last.dimensions = Vector2f(Float(200, 1), Float(100, 1))
    /\ last.gradient_shape.radius = <<SquareRoot(Float(20000, 1)), SquareRoot(Float(5000, 1))>>

\* The instancer named in the last call was the linear one.
LinearAsked == last.name \in {"linear-gradient", "repeating-linear-gradient"}

\* C29: an instancer returns no decorator when the color-stop list is empty,
\* when the color-stops property is missing or is no color-stop list, or,
\* for the linear gradient, when the angle property is missing or is no
\* angle; the decorator it returns holds the list of the property, which is
\* not empty.
C29_InstancingFails ==
    last.op = "InstanceDecorator" =>
        /\ \/ last.properties.color_stop_list = NoProperty
           \/ last.properties.color_stop_list.unit # "COLORSTOPLIST"
           \/ last.properties.color_stop_list.color_stops = <<>>
           \/ LinearAsked /\ last.properties.angle = NoProperty
           \/ LinearAsked /\ last.properties.angle.unit \notin AngleUnits
           => decorator = nullptr
        /\ decorator # nullptr =>
              /\ decorator.color_stops # <<>>
              /\ decorator.color_stops = last.properties.color_stop_list.color_stops

\* Both instancers were handed an empty color-stop list among properties
\* that are otherwise in order, and returned nothing.
C29_EmptyListRefused ==
    /\ last.op = "InstanceDecorator"
    /\ last.properties.color_stop_list.unit = "COLORSTOPLIST"
    /\ last.properties.color_stop_list.color_stops = <<>>
    /\ \A id \in DOMAIN last.properties : last.properties[id] # NoProperty
    /\ LinearAsked => last.properties.angle.unit \in AngleUnits
    /\ decorator = nullptr

\* The leases outstanding on a handle value: the GetHandle calls that
\* returned it less the ReleaseHandle calls on it.
LeasesOn(handle) ==
    BagCardinality([l \in {lease \in Leases : lease.handle = handle} |-> CopiesIn(l, held)])

\* The handles-table entries whose geometry reference points to an entry.
HandlesOf(c) == {h \in DOMAIN handles : handles[h].geometry = c.entry.geometry.ptr}

\* C30: as long as no assertion has failed, the reference count of every
\* entry of the handles table is the number of GetHandle calls that returned
\* its value less the number of ReleaseHandle calls on it, every handle a
\* caller still holds has an entry, and the reference count of every
\* colour-geometry entry is the number of handles-table entries that
\* reference its geometry.
C30_RefCountAccounting ==
    asserted = "none" =>
        /\ \A lease \in Leases : lease.handle \in DOMAIN handles
        /\ \A h \in DOMAIN handles : handles[h].ref_count = LeasesOn(h)
        /\ \A c \in ColourEntries(documents) : c.entry.ref_count = Cardinality(HandlesOf(c))

\* Two entries of the handles table reference one colour-geometry entry,
\* each of them held once.
C30_SharedGeometry ==
    /\ asserted = "none"
    /\ \E c \in ColourEntries(documents) :
          /\ Cardinality(HandlesOf(c)) = 2
          /\ \A h \in HandlesOf(c) : LeasesOn(h) = 1

\* The colour-geometry reference counts, by document, render size and colour.
ColourCounts(docs) ==
    [s \in DOMAIN docs |->
        [i \in DOMAIN docs[s].render_sizes |->
            [j \in DOMAIN docs[s].render_sizes[i].colours |->
                docs[s].render_sizes[i].colours[j].ref_count]]]

C31_HitInputs ==
    \A r \in Requests(build) : \A file \in FileStatesFor(r.source) :
        LET handle == HashHandle(build, r.source, r.dimensions, r.content_fit, r.colour)
            got == GetHandle(build, documents, handles,
                             r.source, r.dimensions, r.content_fit, r.colour, file)
        IN  /\ handle \in DOMAIN handles =>
                  /\ got.ret = handle
                  /\ got.documents = documents
                  /\ ColourCounts(got.documents) = ColourCounts(documents)
                  /\ DOMAIN got.handles = DOMAIN handles
                  /\ got.handles[handle] =
                         [handles[handle] EXCEPT !.ref_count = handles[handle].ref_count + 1]
                  /\ \A h \in DOMAIN handles \ {handle} : got.handles[h] = handles[h]
                  /\ ~got.loaded
            /\ got.loaded => r.source \notin DOMAIN documents

C31_HitStep ==
    (/\ last'.op = "GetHandle"
     /\ \E h \in DOMAIN handles : h \in DOMAIN handles' /\ handles'[h] # handles[h]) =>
        /\ documents' = documents
        /\ DOMAIN handles' = DOMAIN handles
        /\ \E h \in DOMAIN handles :
              /\ handles'[h] = [handles[h] EXCEPT !.ref_count = handles[h].ref_count + 1]
              /\ \A h2 \in DOMAIN handles \ {h} : handles'[h2] = handles[h2]

\* C31: in every state, a GetHandle call whose handle value has an entry in
\* the handles table returns that value, adds one to that entry's reference
\* count and changes nothing else (the documents table with its render-size
\* lists, colour lists and colour counts, and every other handle entry, stay
\* as they are) without calling LoadFile; any call that does call LoadFile
\* found no document for its source in the documents table; and every
\* GetHandle step that changed an existing handle entry did only that.
C31_CacheHitFrame == []C31_HitInputs /\ [][C31_HitStep]_vars

\* A GetHandle call has just hit a live handle entry: the entry counts two,
\* the colour-geometry entry it references still counts one.
C31_HitCountsHandleOnly ==
    /\ last.op = "GetHandle"
    /\ ~last.failed
    /\ \E l \in Leases : CopiesIn(l, held) = 2 /\ handles[l.handle].ref_count = 2
    /\ \A c \in ColourEntries(documents) : c.entry.ref_count = 1

\* C32: in every state every document of the documents table has at least
\* one render size and every render size at least one colour-geometry entry;
\* the render sizes of a document have pairwise different pixel dimensions
\* and the colour-geometry entries of a render size pairwise different
\* colours.
C32_NoEmptyOrDuplicateLevels ==
    \A source \in DOMAIN documents :
        LET render_sizes == documents[source].render_sizes
        IN  /\ Len(render_sizes) >= 1
            /\ \A i, j \in DOMAIN render_sizes :
                  render_sizes[i].render_dimensions = render_sizes[j].render_dimensions => i = j
            /\ \A i \in DOMAIN render_sizes :
                  LET colours == render_sizes[i].colours
                  IN  /\ Len(colours) >= 1
                      /\ \A j, k \in DOMAIN colours :
                            colours[j].colour = colours[k].colour => j = k

\* A release has just erased a handle entry and what it no longer needed;
\* the cache is left with one handle on one document with one render size
\* with one colour-geometry entry.
C32_ShrunkToOneChain ==
    /\ last.op = "ReleaseHandle"
    /\ last.erased
    /\ Cardinality(DOMAIN handles) = 1
    /\ Cardinality(DOMAIN documents) = 1
    /\ \A source \in DOMAIN documents :
          /\ Len(documents[source].render_sizes) = 1
          /\ Len(documents[source].render_sizes[1].colours) = 1

\* The living elements that hold `handle`.
Holders(handle) == {e \in Alive : elements[e].handle = handle}

\* C33: in every state reached by attribute changes, resizes, property
\* changes, renders, intrinsic-size queries and destructions of the elements,
\* beside a caller with leases of its own: no RMLUI_ASSERT has failed, the
\* last handler made no ReleaseHandle call with the value 0, every living
\* element that holds a handle holds one that is in the handles table, and
\* each handle entry's reference count is the number of living elements
\* holding it (one lease each) plus the other caller's leases on it.
C33_ElementLeaseDiscipline ==
    /\ asserted = "none"
    /\ "calls" \in DOMAIN last =>
          \A i \in DOMAIN last.calls :
              last.calls[i].call = "ReleaseHandle" => last.calls[i].handle # InvalidHandle
    /\ \A e \in Alive : elements[e].handle # InvalidHandle => elements[e].handle \in DOMAIN handles
    /\ \A h \in DOMAIN handles :
          handles[h].ref_count = Cardinality(Holders(h)) + OtherLeases(h)

\* A refresh has just taken a new handle and given back another one, while
\* the other caller holds a lease.
C33_SwappedBesideOther ==
    /\ last.op \in Refreshers
    /\ Len(last.calls) = 2
    /\ last.calls[1].handle # last.calls[2].handle
    /\ last.calls[2].call = "ReleaseHandle"
    /\ held # EmptyBag
    /\ elements[last.element].alive

C34_FailedRefreshStep ==
    \A e \in Alive :
        (last'.op \in Refreshers /\ last'.element = e /\ Refused(last'.calls) # {}) =>
            /\ elements'[e].geometry = nullptr
            /\ elements'[e].intrinsic_dimensions = <<0, 0>>
            /\ elements'[e].handle = elements[e].handle
            /\ Len(last'.calls) = 1
            /\ handles' = handles
            /\ documents' = documents
            /\ asserted' = "none"
            /\ elements'[e].is_dirty
            /\ GoesOn(elements'[e])
            /\ ResolveSource(e, elements'[e]) # ""
            /\ ~(elements'[e].source_path = "" /\ ~elements'[e].source_dirty)

\* C34: a render or intrinsic-size query whose refresh got 0 from GetHandle
\* leaves the element with no geometry and an intrinsic size of (0, 0), with
\* the handle it held before, having made no other cache call (the tables
\* are as they were), and with is_dirty set and the element in a state from
\* which the next render or query gets to the GetHandle call again.
C34_FailedRefreshKeepsLease == [][C34_FailedRefreshStep]_vars

\* A refresh has just been refused a handle while the element holds the
\* handle of an earlier refresh.
C34_RefusedWhileHolding ==
    /\ last.op \in Refreshers
    /\ Refused(last.calls) # {}
    /\ elements[last.element].handle \in DOMAIN handles
    /\ elements[last.element].geometry = nullptr

\* Element e is idle: no dirty flag is set, or is_dirty is clear as a refresh
\* that took a handle leaves it.
Idle(e) == ~elements[e].is_dirty

C35_IdleStep ==
    \A e \in Alive :
        (last'.op \in Refreshers /\ last'.element = e) =>
            /\ Idle(e) =>
                  /\ last'.calls = <<>>
                  /\ elements'[e] = elements[e]
                  /\ handles' = handles
                  /\ documents' = documents
                  /\ asserted' = "none"
            /\ Acquired(last'.calls) # {} => ~elements'[e].is_dirty

\* C35: a render or intrinsic-size query on an element whose is_dirty flag
\* is clear (no dirty flag set, or source_dirty alone) makes no cache call
\* and leaves the element and both tables, with every reference count, as
\* they were; and a refresh that took a handle leaves is_dirty clear, so the
\* renders and queries that follow it without a resize or a property change
\* in between are all of this kind.
C35_IdleRendersLeaveCache == [][C35_IdleStep]_vars

\* An element that holds a handle has just been rendered without a refresh.
C35_RenderedIdle ==
    /\ last.op = "OnRender"
    /\ last.calls = <<>>
    /\ elements[last.element].handle \in DOMAIN handles
    /\ ~elements[last.element].is_dirty
    /\ last.rendered # nullptr

\* Stop i of the last call went to the midpoint of its neighbours, or to its
\* predecessor plus the soft spacing, and was not there before.
MovedToMidpoint(i) ==
    /\ last.stops[i] # last.evenly_spaced[i]
    /\ last.stops[i].position.number =
           Times(Float(1, 2), Plus(last.stops[i - 1].position.number,
                                   last.evenly_spaced[i + 1].position.number))

MovedBySpacing(i) ==
    /\ last.stops[i] # last.evenly_spaced[i]
    /\ last.stops[i].position.number =
           Plus(last.stops[i - 1].position.number, last.soft_spacing)

\* C36: with before the positions the soft-spacing pass starts from and
\* after those it leaves, for every interior stop i from left to right: when
\* before[i] - after[i-1] is at least soft_spacing, after[i] = before[i];
\* otherwise after[i] is the midpoint of after[i-1] and before[i+1] when
\* before[i+1] - after[i-1] < 2 * soft_spacing, and after[i-1] +
\* soft_spacing when not.  The first and the last stop are where they were,
\* and after is non-decreasing.
C36_SoftSpacingPass ==
    last.op = "ResolveColorStops" =>
        LET before == Positions(last.evenly_spaced)
            after == Positions(last.stops)
            n == Len(last.stops)
            soft_spacing == last.soft_spacing
        IN  /\ Len(last.evenly_spaced) = n
            /\ after[1] = before[1]
            /\ after[n] = before[n]
            /\ \A i \in 2..(n - 1) :
                  after[i] =
                      IF ~Less(Minus(before[i], after[i - 1]), soft_spacing)
                      THEN before[i]
                      ELSE IF Less(Minus(before[i + 1], after[i - 1]),
                                   Plus(soft_spacing, soft_spacing))
                      THEN DividedBy(Plus(after[i - 1], before[i + 1]), Float(2, 1))
                      ELSE Plus(after[i - 1], soft_spacing)
            /\ NonDecreasing(after)
            /\ \A i \in 1..n : last.stops[i].color = last.evenly_spaced[i].color

\* The pass has moved one stop to a midpoint and another to its predecessor
\* plus the soft spacing, and left a third interior stop where it was.
C36_BothMovesAndNone ==
    /\ last.op = "ResolveColorStops"
    /\ \E i, j, k \in 2..(Len(last.stops) - 1) :
          /\ MovedToMidpoint(i) /\ ~MovedBySpacing(i)
          /\ MovedBySpacing(j) /\ ~MovedToMidpoint(j)
          /\ last.stops[k] = last.evenly_spaced[k]

\* The distances from the center to the two edges of the box on axis k.
EdgeDistances(c, d, k) == <<AbsoluteValue(c[k]), AbsoluteValue(Minus(d[k], c[k]))>>

\* The smaller of them for closest-side, the larger for farthest-side.
SideDistance(type, c, d, k) ==
    IF type = "closest-side"
    THEN MathMin(EdgeDistances(c, d, k)[1], EdgeDistances(c, d, k)[2])
    ELSE MathMax(EdgeDistances(c, d, k)[1], EdgeDistances(c, d, k)[2])

\* The two axis values of an ellipse, or of a circle their minimum
\* (closest-side) or maximum (farthest-side) on both axes.
SideRadius(type, is_circle, c, d) ==
    IF ~is_circle
    THEN <<SideDistance(type, c, d, 1), SideDistance(type, c, d, 2)>>
    ELSE IF type = "closest-side"
    THEN <<MathMin(SideDistance(type, c, d, 1), SideDistance(type, c, d, 2)),
           MathMin(SideDistance(type, c, d, 1), SideDistance(type, c, d, 2))>>
    ELSE <<MathMax(SideDistance(type, c, d, 1), SideDistance(type, c, d, 2)),
           MathMax(SideDistance(type, c, d, 1), SideDistance(type, c, d, 2))>>

\* C37: for a closest-side or farthest-side radial gradient on any box and
\* center, inside the box or outside it, the radius on each axis is the
\* smaller (closest) or larger (farthest) distance from the center to the
\* two edges of the box on that axis, for a circle the minimum (closest) or
\* maximum (farthest) of the two axis values on both axes, and 1 where that
\* is below 1.
C37_SideSizes ==
    (/\ last.op = "CalculateRadialGradientShape"
     /\ decorator.size.type \in {"closest-side", "farthest-side"}) =>
        LET c == last.gradient_shape.center
            d == last.dimensions
            r == SideRadius(decorator.size.type, decorator.shape = "circle", c, d)
        IN  \A k \in 1..2 :
                last.gradient_shape.radius[k] =
                    SquareRoot(Times(MathMax(r[k], Float(1, 1)), MathMax(r[k], Float(1, 1))))

\* A closest-side ellipse was shaped about a center left of its box, and one
\* of its radii is above the floor.
C37_ClosestSideFromOutside ==
    /\ last.op = "CalculateRadialGradientShape"
    /\ decorator.size.type = "closest-side"
    /\ decorator.shape = "ellipse"
    /\ Less(last.gradient_shape.center[1], Float(0, 1))
    /\ Less(Float(1, 1), last.gradient_shape.radius[1].squared)
    /\ last.gradient_shape.radius[2] = SquareRoot(Float(1, 1))

Range(seq) == {seq[i] : i \in DOMAIN seq}

\* The handles the render interface holds compiled: those of the
\* CompileShader calls made, less those released.
LiveShaders == (1..Len(effects.compiled)) \ Range(effects.released)

C38_Accounting ==
    /\ \A i \in DOMAIN effects.compiled : effects.compiled[i] = decorator.type
    /\ Range(effects.released) \subseteq 1..Len(effects.compiled)
    /\ \A i, j \in DOMAIN effects.released :
          effects.released[i] = effects.released[j] => i = j
    /\ {effects.pool[p].effect : p \in DOMAIN effects.pool} = LiveShaders
    /\ \A p, q \in DOMAIN effects.pool :
          effects.pool[p].effect = effects.pool[q].effect => p = q
    /\ INVALID_DECORATORDATAHANDLE \notin DOMAIN effects.pool
    /\ Len(effects.compiled) = Len(effects.released) + Cardinality(DOMAIN effects.pool)

C38_LifecycleStep ==
    /\ (last'.op = "GenerateElementData" /\ ~last'.render_interface) =>
          /\ last'.ret = INVALID_DECORATORDATAHANDLE
          /\ effects' = effects
    /\ (last'.op = "GenerateElementData" /\ last'.render_interface) =>
          /\ effects'.compiled = Append(effects.compiled, decorator.type)
          /\ decorator.type \in {"linear-gradient", "radial-gradient"}
          /\ effects'.released = effects.released
          /\ last'.ret # INVALID_DECORATORDATAHANDLE
          /\ DOMAIN effects'.pool = DOMAIN effects.pool \cup {last'.ret}
          /\ last'.ret \notin DOMAIN effects.pool
          /\ effects'.pool[last'.ret].effect = Len(effects'.compiled)
          /\ \A p \in DOMAIN effects.pool : effects'.pool[p] = effects.pool[p]
    /\ last'.op = "ReleaseElementData" =>
          /\ last'.ret \in DOMAIN effects.pool
          /\ effects'.released = Append(effects.released, effects.pool[last'.ret].effect)
          /\ effects'.compiled = effects.compiled
          /\ DOMAIN effects'.pool = DOMAIN effects.pool \ {last'.ret}
          /\ \A p \in DOMAIN effects'.pool : effects'.pool[p] = effects.pool[p]

\* C38: for a linear and for a radial decorator, GenerateElementData on an
\* element without a render interface returns the invalid handle and makes
\* no CompileShader call; with one it makes exactly one CompileShader call,
\* under the decorator's name, and adds one element-data record holding that
\* shader; ReleaseElementData on a record makes exactly one
\* ReleaseCompiledShader call, for the shader of that record, and frees the
\* record.  So in every state the shaders compiled and not released are
\* those of the records alive, one each, no shader is released twice, and
\* once every record is released as many shaders were released as compiled.
C38_EffectLifecycle == []C38_Accounting /\ [][C38_LifecycleStep]_vars

\* Two records were generated and both released, the first one first.
C38_TwoPairsDone ==
    /\ last.op = "ReleaseElementData"
    /\ effects.compiled = <<decorator.type, decorator.type>>
    /\ effects.released = <<1, 2>>
    /\ effects.pool = <<>>
====
